---- MODULE Spec2Model ----
(***************************************************************************)
(* lppy: the input pipeline (lppy/midi.py, InputDevice) and the button     *)
(* dispatch of a Layout (lppy/layout.py), as a state machine.              *)
(*                                                                         *)
(* Threads:                                                                *)
(*   transport  the rtmidi thread that runs InputDevice.__callback         *)
(*   worker     the daemon thread that runs InputDevice.__handle_callbacks *)
(*   app        the thread that calls flush / close / set_callback / ...   *)
(* A step of the model is one observable effect of one thread.             *)
(*                                                                         *)
(* Also: led_on of the three launchpad classes (lppy/models), the          *)
(* construction of a Layout step by step, and the transport callback for   *)
(* raw messages of any length; a single call from outside is recorded in   *)
(* `call` and its outcome in `ret`. Message, the decoding of a looped-back *)
(* message, RGB (scale, hex, parse), the construction of a launchpad and   *)
(* write_char are such calls; the close of a LaunchpadMiniMk3 runs beside  *)
(* the dispatch.                                                           *)
(*                                                                         *)
(* The events are the Messages of lppy/message.py (number and action kind) *)
(* that Layout.callback reads; one entry of the wire history stands for    *)
(* the LED writes of one call of led_on, led_all_off or write_char, or of  *)
(* one paced step of write_string.                                         *)
(***************************************************************************)
EXTENDS Integers, Sequences, FiniteSets, TLC

(* ---------------------------------------------------------------------- *)
(* Bounds                                                                  *)
(* ---------------------------------------------------------------------- *)

\* number of raw button messages the transport hands over in one run
MaxMsgs == 2

\* length of the longest text a Result carries
MaxText == 1

(* ---------------------------------------------------------------------- *)
(* Values                                                                  *)
(* ---------------------------------------------------------------------- *)

\* message.py, class Action
Action == {"press", "release", "click"}

\* generic subscribers of the input device (any callable given to
\* set_callback); "L" is the bound method Layout.callback
GenericSubs == {"A", "B"}
LayoutSub == "L"

\* enums.py, class Scroll
Scroll == {"none", "left", "right"}

\* the text scroll modes the actions of the model ask for (Result.scroll
\* defaults to Scroll.none)
ResultScroll == {"none"}

Ev(n, a) == [n |-> n, action |-> a]

\* the button events of the model: 5 and 9 are configured buttons, 7 is
\* bound to nothing, 120 is outside the LED range of Pro/Mk3
Events ==
    { Ev(5, "press"), Ev(5, "release"), Ev(7, "press"), Ev(120, "press") }

\* one entry of the "layout" list; its command names an importable callable
Btn(n, a, s) ==
    [n |-> n, action |-> a, initial_state |-> s, command |-> "actions:run"]

\* the same entry with a command that names nothing importable
Unresolved(d) == [d EXCEPT !.command = "actions:missing"]

\* the "layout" lists of the configuration documents of the model
Configs ==
    { <<Btn(5, "press", "off"), Btn(9, "click", "on")>>,
      <<Btn(5, "release", "off"), Btn(9, "release", "off"), Btn(5, "press", "on")>>,
      <<Btn(5, "press", "off"), Btn(120, "press", "no_change")>> }

NoMsg == [id |-> 0, n |-> 0, action |-> "none"]

\* no call yet
NoCall == [op |-> "none"]

\* the outcome of a call: the exception it raised ("none": it returned), the
\* wire messages it sent, and the object it worked on as it left it
Outcome(raised, wire, obj) == [raised |-> raised, wire |-> wire, obj |-> obj]

NoRet == Outcome("none", <<>>, "-")

VARIABLES
    midi,             \* Device.midi: "open" or "none" (self.midi = None)
    message_queue,    \* InputDevice.__message_queue (polled by read)
    callback_queue,   \* InputDevice.__callback_queue (drained by the worker)
    callbacks,        \* InputDevice.__callbacks, in registration order
    stop_event,       \* InputDevice.__stop_event
    wpc,              \* worker: position in __handle_callbacks
    wmsg,             \* worker: local `message`
    widx,             \* worker: index of the list iterator of the for loop
    wsub,             \* worker: the callback being run
    tpc,              \* transport thread: position in __callback
    tmsg,             \* transport thread: local `msg`
    apc,              \* app thread: position in flush / close
    nextId,           \* arrival number of the next raw message
    delivered,        \* history: callback invocations started, in order
    flushed,          \* history: ids removed from the callback queue by flush
    atFlush,          \* history: ids queued or taken by the worker when
                      \*          flush was invoked
    arrived,          \* history: the messages in arrival order (by id)
    output,           \* LaunchpadBase.output: "open" or "none"
    config,           \* the "layout" list of the configuration document
    layout,           \* Layout.layout: the Buttons, in dict order
    lpc,              \* worker inside Layout.callback: position
    lcnt,             \* worker inside Layout.callback: loop counter
    trace,            \* history: action invocations and wire messages
    changed,          \* history: Button state changes (event id, number)
    failures,         \* history: errors raised during a dispatch
    call,             \* the last call made from outside: operation, arguments
    ret               \* what that call did: exception raised, wire messages

pipeVars == <<midi, message_queue, callback_queue, callbacks, stop_event,
              wpc, wmsg, widx, wsub, tpc, tmsg, apc, nextId, delivered,
              flushed, atFlush>>

layVars == <<output, config, layout, lpc, lcnt, trace, changed, failures,
             call, ret>>

vars == <<pipeVars, arrived, layVars>>

Ids(q) == {q[i].id : i \in 1..Len(q)}

(* ---------------------------------------------------------------------- *)
(* midi.py: InputDevice                                                    *)
(* ---------------------------------------------------------------------- *)

\* InputDevice.__init__: both queues empty, no callback, stop flag clear,
\* the worker thread started.
InputDeviceInit ==
    /\ midi = "open"
    /\ message_queue = <<>>
    /\ callback_queue = <<>>
    /\ stop_event = FALSE
    /\ wpc = "while"
    /\ wmsg = NoMsg
    /\ widx = 0
    /\ wsub = "none"
    /\ tpc = "idle"
    /\ tmsg = NoMsg
    /\ apc = "idle"
    /\ nextId = 1
    /\ delivered = <<>>
    /\ flushed = {}
    /\ atFlush = {}
    /\ arrived = <<>>

\* InputDevice.__callback, first put: a button message (code 144 or 176)
\* becomes a Message and is put on the polling queue.
Callback_put1(n, a) ==
    /\ midi = "open"
    /\ tpc = "idle"
    /\ nextId <= MaxMsgs
    /\ LET msg == [id |-> nextId, n |-> n, action |-> a] IN
        /\ message_queue' = Append(message_queue, msg)
        /\ tmsg' = msg
        /\ arrived' = Append(arrived, msg)
    /\ tpc' = "put2"
    /\ nextId' = nextId + 1
    /\ UNCHANGED <<midi, callback_queue, callbacks, stop_event, wpc, wmsg,
                   widx, wsub, apc, delivered, flushed, atFlush>>
    /\ UNCHANGED layVars

\* InputDevice.__callback, second put: the same Message on the callback queue.
Callback_put2 ==
    /\ tpc = "put2"
    /\ callback_queue' = Append(callback_queue, tmsg)
    /\ tpc' = "idle"
    /\ tmsg' = NoMsg
    /\ UNCHANGED <<midi, message_queue, callbacks, stop_event, wpc, wmsg,
                   widx, wsub, apc, nextId, delivered, flushed, atFlush>>
    /\ UNCHANGED <<arrived, layVars>>

\* the raw messages the transport hands to the model: note on and off of
\* Button 5, a control change, a note-off status, channel pressure (two
\* bytes), a clock byte and a system-exclusive fragment
RawMessages ==
    { <<144, 5, 127>>, <<144, 5, 0>>, <<176, 7, 127>>, <<128, 5, 0>>,
      <<208, 64>>, <<248>>, <<240, 0, 32, 41>> }

\* InputDevice.__callback as a whole, for any raw message (bytes of
\* `message[0]`): the tuple assignment `(code, n, intensity) = ...` raises
\* ValueError unless there are three bytes; codes 144 and 176 make a Message
\* (Message.state on for intensity 127: the press) and the first put; any
\* other code is dropped.
InputDevice_callback(raw) ==
    /\ midi = "open"
    /\ tpc = "idle"
    /\ nextId <= MaxMsgs
    /\ call' = [op |-> "__callback", raw |-> raw]
    /\ IF Len(raw) # 3
         THEN /\ ret' = Outcome("ValueError", <<>>, "-")
              /\ UNCHANGED <<message_queue, tmsg, arrived, tpc, nextId>>
       ELSE IF raw[1] \in {144, 176}
         THEN LET msg == [id |-> nextId, n |-> raw[2],
                          action |-> IF raw[3] = 127 THEN "press"
                                                     ELSE "release"] IN
              /\ message_queue' = Append(message_queue, msg)
              /\ tmsg' = msg
              /\ arrived' = Append(arrived, msg)
              /\ tpc' = "put2"
              /\ nextId' = nextId + 1
              /\ ret' = NoRet
         ELSE /\ ret' = NoRet
              /\ UNCHANGED <<message_queue, tmsg, arrived, tpc, nextId>>
    /\ UNCHANGED <<midi, callback_queue, callbacks, stop_event, wpc, wmsg,
                   widx, wsub, apc, delivered, flushed, atFlush>>
    /\ UNCHANGED <<output, config, layout, lpc, lcnt, trace, changed, failures>>

\* __handle_callbacks: `while not self.__stop_event.is_set()`
Worker_while ==
    /\ wpc = "while"
    /\ wpc' = IF stop_event THEN "done" ELSE "get"
    /\ UNCHANGED <<midi, message_queue, callback_queue, callbacks, stop_event,
                   wmsg, widx, wsub, tpc, tmsg, apc, nextId, delivered,
                   flushed, atFlush>>
    /\ UNCHANGED <<arrived, layVars>>

\* __handle_callbacks: `message = self.__callback_queue.get()` blocks while
\* the queue is empty and takes the oldest message otherwise; the for loop
\* then starts with a fresh list iterator.
Queue_get_lifo(q) == <<q[Len(q)], SubSeq(q, 1, Len(q) - 1)>>

Queue_get(q) == <<Head(q), Tail(q)>>

Worker_get ==
    /\ wpc = "get"
    /\ callback_queue # <<>>
    /\ wmsg' = Queue_get(callback_queue)[1]
    /\ callback_queue' = Queue_get(callback_queue)[2]
    /\ widx' = 1
    /\ wpc' = "for"
    /\ UNCHANGED <<midi, message_queue, callbacks, stop_event, wsub, tpc,
                   tmsg, apc, nextId, delivered, flushed, atFlush>>
    /\ UNCHANGED <<arrived, layVars>>

\* __handle_callbacks: `for callback in self.__callbacks`: the list iterator
\* yields the element at its index while the index is inside the list as it
\* is now, and the callback is called with the message.
Worker_for ==
    /\ wpc = "for"
    /\ IF widx <= Len(callbacks)
         THEN /\ wsub' = callbacks[widx]
              /\ widx' = widx + 1
              /\ delivered' = Append(delivered,
                    [id |-> wmsg.id, sub |-> callbacks[widx], pos |-> widx])
              /\ wpc' = "call"
              /\ UNCHANGED wmsg
         ELSE /\ wpc' = "while"
              /\ wmsg' = NoMsg
              /\ UNCHANGED <<wsub, widx, delivered>>
    /\ UNCHANGED <<midi, message_queue, callback_queue, callbacks, stop_event,
                   tpc, tmsg, apc, nextId, flushed, atFlush>>
    /\ UNCHANGED <<arrived, layVars>>

\* __handle_callbacks: where the worker goes when a callback raised: the
\* try statement encloses the whole for loop, so `except Exception: pass`
\* abandons the loop and goes back to the while test.
Worker_except == "while"

\* a generic subscriber's call ends: it returns (the loop goes on) or it
\* raises (handled by the worker's except clause)
Worker_call_generic ==
    /\ wpc = "call"
    /\ wsub \in GenericSubs
    /\ \E raised \in BOOLEAN :
         /\ wpc' = IF raised THEN Worker_except ELSE "for"
         /\ wmsg' = IF wpc' = "while" THEN NoMsg ELSE wmsg
    /\ wsub' = "none"
    /\ UNCHANGED <<midi, message_queue, callback_queue, callbacks, stop_event,
                   widx, tpc, tmsg, apc, nextId, delivered, flushed, atFlush>>
    /\ UNCHANGED <<arrived, layVars>>

set_callback_unchecked(cbs, callback) == Append(cbs, callback)

\* InputDevice.set_callback
set_callback(cbs, callback) ==
    IF \E i \in 1..Len(cbs) : cbs[i] = callback
      THEN cbs
      ELSE Append(cbs, callback)

\* InputDevice.remove_callback (list.remove: the first occurrence)
remove_callback(cbs, callback) ==
    IF \E i \in 1..Len(cbs) : cbs[i] = callback
      THEN LET k == CHOOSE i \in 1..Len(cbs) :
                      /\ cbs[i] = callback
                      /\ \A j \in 1..(i - 1) : cbs[j] # callback
           IN  SubSeq(cbs, 1, k - 1) \o SubSeq(cbs, k + 1, Len(cbs))
      ELSE cbs

App_set_callback(s) ==
    /\ apc = "idle"
    /\ callbacks' = set_callback(callbacks, s)
    /\ callbacks' # callbacks
    /\ UNCHANGED <<midi, message_queue, callback_queue, stop_event, wpc, wmsg,
                   widx, wsub, tpc, tmsg, apc, nextId, delivered, flushed,
                   atFlush>>
    /\ UNCHANGED <<arrived, layVars>>

App_remove_callback(s) ==
    /\ apc = "idle"
    /\ callbacks' = remove_callback(callbacks, s)
    /\ callbacks' # callbacks
    /\ UNCHANGED <<midi, message_queue, callback_queue, stop_event, wpc, wmsg,
                   widx, wsub, tpc, tmsg, apc, nextId, delivered, flushed,
                   atFlush>>
    /\ UNCHANGED <<arrived, layVars>>

\* InputDevice.read: get_nowait on the polling queue
App_read ==
    /\ apc = "idle"
    /\ message_queue # <<>>
    /\ message_queue' = Tail(message_queue)
    /\ UNCHANGED <<midi, callback_queue, callbacks, stop_event, wpc, wmsg,
                   widx, wsub, tpc, tmsg, apc, nextId, delivered, flushed,
                   atFlush>>
    /\ UNCHANGED <<arrived, layVars>>

\* the messages the worker has taken from the queue and not finished
InFlight == IF wpc \in {"for", "call"} THEN {wmsg.id} ELSE {}

\* InputDevice.flush, `queue.clear()` on the deque of a Queue
Queue_clear_keeps_newest(q) == IF q = <<>> THEN q ELSE <<q[Len(q)]>>

Queue_clear(q) == <<>>

\* InputDevice.flush, first with-block: the polling queue is cleared
Flush_message_queue ==
    /\ apc = "idle"
    /\ message_queue' = Queue_clear(message_queue)
    /\ apc' = "flush2"
    /\ atFlush' = atFlush \cup Ids(callback_queue) \cup InFlight
    /\ UNCHANGED <<midi, callback_queue, callbacks, stop_event, wpc, wmsg,
                   widx, wsub, tpc, tmsg, nextId, delivered, flushed>>
    /\ UNCHANGED <<arrived, layVars>>

\* InputDevice.flush, second with-block: the callback queue is cleared
Flush_callback_queue ==
    /\ apc = "flush2"
    /\ callback_queue' = Queue_clear(callback_queue)
    /\ flushed' = flushed \cup Ids(callback_queue)
    /\ apc' = "idle"
    /\ UNCHANGED <<midi, message_queue, callbacks, stop_event, wpc, wmsg,
                   widx, wsub, tpc, tmsg, nextId, delivered, atFlush>>
    /\ UNCHANGED <<arrived, layVars>>

\* InputDevice.close, first statement: self.__stop_event.set(); pc is where
\* the closing thread stands before it
Close_stop_from(pc) ==
    /\ apc = pc
    /\ stop_event' = TRUE
    /\ apc' = "close2"
    /\ UNCHANGED <<midi, message_queue, callback_queue, callbacks, wpc, wmsg,
                   widx, wsub, tpc, tmsg, nextId, delivered, flushed, atFlush>>
    /\ UNCHANGED <<arrived, layVars>>

\* LaunchpadBase.close starts with it
Close_stop == Close_stop_from("idle")

\* InputDevice.close, second statement: Device.close releases the handle
\* (midi.delete(); self.midi = None) and close() returns
Close_release ==
    /\ apc = "close2"
    /\ midi' = "none"
    /\ apc' = "closed"
    /\ UNCHANGED <<message_queue, callback_queue, callbacks, stop_event, wpc,
                   wmsg, widx, wsub, tpc, tmsg, nextId, delivered, flushed,
                   atFlush>>
    /\ UNCHANGED <<arrived, layVars>>

\* LaunchpadBase.close, lines 40-42: after the input device the output
\* device is closed and self.output becomes None
Close_output ==
    /\ apc = "closed"
    /\ output = "open"
    /\ output' = "none"
    /\ UNCHANGED <<config, layout, lpc, lcnt, trace, changed, failures,
                   call, ret>>
    /\ UNCHANGED <<pipeVars, arrived>>

(* ---------------------------------------------------------------------- *)
(* layout.py: Button, Layout                                               *)
(* ---------------------------------------------------------------------- *)

\* enums.py, ButtonState
ButtonState == {"on", "off", "err", "no_change"}

led_on_valid_classic(n) == ~(n < 0 \/ n > 120)

\* models/pro.py, LaunchpadPro.led_on: the flat numbers it accepts
\* (`if n < 0 or n > 99: raise LEDSelectionError`)
led_on_valid(n) == ~(n < 0 \/ n > 99)

\* Button.led_on: the colour written for a state ("none": nothing is written)
Button_led_on(state) ==
    CASE state = "on"  -> "color_on"
      [] state = "off" -> "color_off"
      [] state = "err" -> "color_off"
      [] OTHER         -> "none"

\* Button.from_dict / Button.__init__: the Button of one configuration entry
Button_from_dict(d) == [n |-> d.n, action |-> d.action, state |-> d.initial_state]

\* the paths that name a callable of an importable module
Importable == {"actions:run", "states:get"}

\* get_callable: the callable a path names, "None" when the import fails
\* (the exception is logged and None returned)
get_callable(path) == IF path \in Importable THEN path ELSE "None"

\* Callback.__init__: inspect.signature(self.callback) raises TypeError when
\* get_callable returned None, and the exception leaves Button.__init__,
\* Button.from_dict and Layout.__init__
Callback_init_raises(command) == get_callable(command) = "None"

\* Layout.__init__, `self.layout[button.n] = button`: a dict keeps the place
\* of a key that is assigned again
Layout_setitem(lay, b) ==
    IF \E i \in 1..Len(lay) : lay[i].n = b.n
      THEN [i \in 1..Len(lay) |-> IF lay[i].n = b.n THEN b ELSE lay[i]]
      ELSE Append(lay, b)

\* Layout.__init__, the loop over data["layout"]
RECURSIVE Layout_load(_, _)
Layout_load(lay, data) ==
    IF data = <<>> THEN lay
    ELSE Layout_load(Layout_setitem(lay, Button_from_dict(Head(data))), Tail(data))

\* Layout.__init__, the three registrations of self.callback (for click,
\* press and release; the InputDevice of midi.py keeps one list of callbacks
\* and hands every message to each of them)
Layout_register(cbs) ==
    set_callback(set_callback(set_callback(cbs, LayoutSub), LayoutSub), LayoutSub)

\* the all-LEDs-off command of Layout.reset (launchpad.led_all_off is not
\* part of the sources; base.py reset() sends led_all_on(Color.black))
led_all_off(id) == [id |-> id, k |-> "alloff", n |-> 0, c |-> "black"]

Wire_led(id, b) == [id |-> id, k |-> "led", n |-> b.n, c |-> Button_led_on(b.state)]

\* Layout.reset as run by Layout.__init__ (no event: id 0)
RECURSIVE Reset_leds(_, _)
Reset_leds(lay, id) ==
    IF lay = <<>> THEN <<>>
    ELSE (IF Button_led_on(Head(lay).state) = "none" THEN <<>>
          ELSE <<Wire_led(id, Head(lay))>>) \o Reset_leds(Tail(lay), id)

Layout_reset(lay, id) == <<led_all_off(id)>> \o Reset_leds(lay, id)

\* Layout.__init__ raises (and no Layout exists) when the Callback of an
\* entry cannot be made
Layout_loads(data) ==
    \A i \in 1..Len(data) : ~Callback_init_raises(data[i].command)

\* Layout.__init__ raises (and no Layout exists) when a write of its reset
\* raises LEDSelectionError
Layout_constructs(lay) ==
    \A i \in 1..Len(lay) :
        Button_led_on(lay[i].state) # "none" => led_on_valid(lay[i].n)

Layout_get_first(lay, n) ==
    IF \E i \in 1..Len(lay) : lay[i].n = n
      THEN CHOOSE i \in 1..Len(lay) : lay[i].n = n
      ELSE 1

\* Layout.callback, `self.layout.get(message.n, None)`: the place of the
\* Button with that number, 0 for None
Layout_get(lay, n) ==
    IF \E i \in 1..Len(lay) : lay[i].n = n
      THEN CHOOSE i \in 1..Len(lay) : lay[i].n = n
      ELSE 0

Layout_match_any(button, message) == TRUE

\* Layout.callback, `button.action == message.action`
Layout_match(button, message) == button.action = message.action

\* base.py write_string: the number of paced steps (time.sleep) of a text of
\* length len
write_string_steps(len, scroll) ==
    CASE scroll = "left"  -> (len + 1 + 1) * 8
      [] scroll = "right" -> (len + 2 + 1) * 8 - 7
      [] OTHER            -> 4 * len

Layout_except_reraises == Worker_except

\* Layout.callback, `except Exception`: the error is logged and the callback
\* returns, so the worker's for loop goes on
Layout_except == "for"

\* the worker leaves Layout.callback and reaches position pc
Layout_leave(pc) ==
    /\ wpc' = pc
    /\ wmsg' = IF pc = "while" THEN NoMsg ELSE wmsg
    /\ wsub' = "none"
    /\ lpc' = "start"
    /\ lcnt' = 0

Layout_stay ==
    /\ UNCHANGED <<wpc, wmsg, wsub>>

Layout_frame ==
    /\ UNCHANGED <<midi, message_queue, callback_queue, callbacks, stop_event,
                   widx, tpc, tmsg, apc, nextId, delivered, flushed, atFlush,
                   arrived, output, config, call, ret>>

Fail(kind) == failures \cup {[id |-> wmsg.id, kind |-> kind]}

\* what a bound action may do to its own Button before it ends
ActionSetState == {"keep", "on"}
\* how a bound action ends: it raises, returns None, or returns a Result
\* with a character, with a text, with both, or with neither
ActionOutcome == {"raise", "None", "char", "text", "both", "empty"}

Layout_after_text_no_clear == "reset_led"

\* Layout.callback, the text branch after write_string: `self.reset()`
Layout_after_text == "reset_off"

\* Layout.callback up to the end of button.execute: lookup, trigger test,
\* and the action run through Callback.__call__
Layout_callback_execute ==
    /\ wpc = "call" /\ wsub = LayoutSub /\ lpc = "start"
    /\ LET i == Layout_get(layout, wmsg.n) IN
       IF i = 0 \/ ~Layout_match(layout[i], wmsg)
         THEN /\ Layout_leave("for")
              /\ UNCHANGED <<layout, trace, changed, failures>>
         ELSE \E st \in ActionSetState, out \in ActionOutcome,
                 len \in 1..MaxText, scroll \in ResultScroll :
              LET b      == layout[i]
                  b1     == [b EXCEPT !.state = st]
                  \* history: the invocation, with the Button's state before it
                  tr1    == Append(trace, [id |-> wmsg.id, k |-> "invoke",
                                           n |-> b.n, c |-> b.state])
                  writes == st # "keep" /\ Button_led_on(st) # "none"
                  bad    == writes /\ (~led_on_valid(b.n) \/ output = "none")
                  \* Callback.__call__: `except Exception: return Result()`
                  result == IF bad \/ out = "raise" THEN "empty" ELSE out
                  \* history: how the action ended, and the paced steps of
                  \* the text it returned
                  ended  == [id |-> wmsg.id, k |-> "result",
                             n |-> IF result \in {"text", "both"}
                                     THEN write_string_steps(len, scroll) ELSE 0,
                             c |-> IF bad THEN "raise" ELSE out]
              IN  /\ (out # "text" => len = 1 /\ scroll = "none")
                  /\ layout' = IF st = "keep" THEN layout
                               ELSE [layout EXCEPT ![i] = b1]
                  /\ changed' = IF st = "keep" \/ st = b.state THEN changed
                                ELSE changed \cup {[id |-> wmsg.id, n |-> b.n]}
                  /\ trace' = IF writes /\ ~bad
                                THEN Append(Append(tr1, Wire_led(wmsg.id, b1)),
                                            ended)
                                ELSE Append(tr1, ended)
                  /\ failures' = IF bad \/ out = "raise"
                                   THEN Fail("action") ELSE failures
                  /\ IF result = "None"
                       THEN Layout_leave("for")
                       ELSE /\ Layout_stay
                            \* `if result.char is not None` comes first
                            /\ lpc' = CASE result \in {"char", "both"} -> "char"
                                        [] result = "text" -> "text"
                                        [] OTHER -> "reset_off"
                            /\ lcnt' = IF result = "text"
                                         THEN write_string_steps(len, scroll)
                                         ELSE 0
    /\ Layout_frame

\* Layout.callback, `self.launchpad.write_char(...)`, then reset(False)
Layout_write_char ==
    /\ wpc = "call" /\ wsub = LayoutSub /\ lpc = "char"
    /\ IF output = "none"
         THEN /\ Layout_leave(Layout_except)
              /\ failures' = Fail("write")
              /\ UNCHANGED trace
         ELSE /\ trace' = Append(trace, [id |-> wmsg.id, k |-> "glyph",
                                         n |-> 0, c |-> "result"])
              /\ Layout_stay
              /\ lpc' = "reset_led"
              /\ lcnt' = 1
              /\ UNCHANGED failures
    /\ UNCHANGED <<layout, changed>>
    /\ Layout_frame

\* Layout.callback, `self.launchpad.write_string(...)`: one paced step, and
\* reset() after the last
Layout_write_string ==
    /\ wpc = "call" /\ wsub = LayoutSub /\ lpc = "text"
    /\ IF output = "none"
         THEN /\ Layout_leave(Layout_except)
              /\ failures' = Fail("write")
              /\ UNCHANGED trace
         ELSE /\ trace' = Append(trace, [id |-> wmsg.id, k |-> "frame",
                                         n |-> 0, c |-> "result"])
              /\ Layout_stay
              /\ lpc' = IF lcnt = 1 THEN Layout_after_text ELSE "text"
              /\ lcnt' = IF lcnt = 1 /\ Layout_after_text = "reset_led"
                           THEN 1 ELSE lcnt - 1
              /\ UNCHANGED failures
    /\ UNCHANGED <<layout, changed>>
    /\ Layout_frame

\* Layout.reset, `if other_led_off: self.launchpad.led_all_off()`
Layout_reset_off ==
    /\ wpc = "call" /\ wsub = LayoutSub /\ lpc = "reset_off"
    /\ IF output = "none"
         THEN /\ Layout_leave(Layout_except)
              /\ failures' = Fail("write")
              /\ UNCHANGED trace
         ELSE /\ trace' = Append(trace, led_all_off(wmsg.id))
              /\ Layout_stay
              /\ lpc' = "reset_led"
              /\ lcnt' = 1
              /\ UNCHANGED failures
    /\ UNCHANGED <<layout, changed>>
    /\ Layout_frame

\* Layout.reset, `for button in self.layout.values(): button.led_on()`
Layout_reset_led ==
    /\ wpc = "call" /\ wsub = LayoutSub /\ lpc = "reset_led"
    /\ IF lcnt > Len(layout)
         THEN /\ Layout_leave("for")
              /\ UNCHANGED <<trace, failures>>
         ELSE LET b == layout[lcnt] IN
              IF Button_led_on(b.state) = "none"
                THEN /\ Layout_stay
                     /\ lcnt' = lcnt + 1
                     /\ UNCHANGED <<lpc, trace, failures>>
              ELSE IF ~led_on_valid(b.n)
                THEN /\ Layout_leave(Layout_except)
                     /\ failures' = Fail("selection")
                     /\ UNCHANGED trace
              ELSE IF output = "none"
                THEN /\ Layout_leave(Layout_except)
                     /\ failures' = Fail("write")
                     /\ UNCHANGED trace
              ELSE /\ trace' = Append(trace, Wire_led(wmsg.id, b))
                   /\ Layout_stay
                   /\ lcnt' = lcnt + 1
                   /\ UNCHANGED <<lpc, failures>>
    /\ UNCHANGED <<layout, changed>>
    /\ Layout_frame

(* ---------------------------------------------------------------------- *)
(* models/pro.py, models/mini_mk3.py, models/launchpad.py: led_on          *)
(* ---------------------------------------------------------------------- *)

\* an Optional[int] argument: None, or a number
None == <<>>
Some(v) == <<v>>
Opt(S) == {None} \cup {Some(v) : v \in S}

\* Python's int() of a quotient: truncation towards zero
Trunc_div(a, b) == IF a >= 0 THEN a \div b ELSE -((-a) \div b)

RGB(r, g, b) == [r |-> r, g |-> g, b |-> b]

\* enums.py, RGB.scale: int(((c / 255.0) * (maximum - minimum)) + minimum)
RGB_scale_channel_by_256(c, minimum, maximum) ==
    Trunc_div(c * (maximum - minimum) + minimum * 256, 256)

RGB_scale_channel(c, minimum, maximum) ==
    Trunc_div(c * (maximum - minimum) + minimum * 255, 255)

RGB_scale(color, minimum, maximum) ==
    RGB(RGB_scale_channel(color.r, minimum, maximum),
        RGB_scale_channel(color.g, minimum, maximum),
        RGB_scale_channel(color.b, minimum, maximum))

\* midi.py, OutputDevice.send_sysex and OutputDevice.send: one wire message
Sysex(data) == [k |-> "sysex", data |-> <<240>> \o data \o <<247>>]
Send(stat, dat1, dat2) == [k |-> "send", data |-> <<stat, dat1, dat2>>]

LEDSelectionError == Outcome("LEDSelectionError", <<>>, "-")

\* models/pro.py, LaunchpadPro.led_on
Pro_led_on_from_91(color, n, x, y) ==
    LET c == RGB_scale(color, 0, 63) IN
    IF n # None
      THEN IF ~led_on_valid(n[1])
             THEN LEDSelectionError
             ELSE Outcome("none",
                    <<Sysex(<<0, 32, 41, 2, 16, 11, n[1], c.r, c.g, c.b>>)>>, "-")
    ELSE IF x # None /\ y # None
      THEN IF x[1] < 0 \/ x[1] > 9 \/ y[1] < 0 \/ y[1] > 9
             THEN LEDSelectionError
             ELSE Outcome("none",
                    <<Sysex(<<0, 32, 41, 2, 16, 11, 91 - (10 * y[1]) + x[1],
                              c.r, c.g, c.b>>)>>, "-")
    ELSE LEDSelectionError

Pro_led_on(color, n, x, y) ==
    LET c == RGB_scale(color, 0, 63) IN
    IF n # None
      THEN IF ~led_on_valid(n[1])
             THEN LEDSelectionError
             ELSE Outcome("none",
                    <<Sysex(<<0, 32, 41, 2, 16, 11, n[1], c.r, c.g, c.b>>)>>, "-")
    ELSE IF x # None /\ y # None
      THEN IF x[1] < 0 \/ x[1] > 9 \/ y[1] < 0 \/ y[1] > 9
             THEN LEDSelectionError
             ELSE Outcome("none",
                    <<Sysex(<<0, 32, 41, 2, 16, 11, 90 - (10 * y[1]) + x[1],
                              c.r, c.g, c.b>>)>>, "-")
    ELSE LEDSelectionError

\* models/mini_mk3.py, LaunchpadMiniMk3.led_on
Mk3_led_on(color, n, x, y) ==
    LET c == RGB_scale(color, 0, 63) IN
    IF n # None
      THEN IF n[1] < 0 \/ n[1] > 99
             THEN LEDSelectionError
             ELSE Outcome("none",
                    <<Sysex(<<0, 32, 41, 2, 13, 3, 3, n[1], c.r, c.g, c.b>>)>>, "-")
    ELSE IF x # None /\ y # None
      THEN IF x[1] < 0 \/ x[1] > 9 \/ y[1] < 0 \/ y[1] > 9
             THEN LEDSelectionError
             ELSE Outcome("none",
                    <<Sysex(<<0, 32, 41, 2, 13, 3, 3, 90 - (10 * y[1]) + x[1],
                              c.r, c.g, c.b>>)>>, "-")
    ELSE LEDSelectionError

Min(a, b) == IF a < b THEN a ELSE b
Max(a, b) == IF a > b THEN a ELSE b

\* models/launchpad.py, Launchpad._get_color: red | green << 4, each 0..3
Launchpad_get_color(color) ==
    Max(Min(color.r, 3), 0) + 16 * Max(Min(color.g, 3), 0)

\* models/launchpad.py, Launchpad.led_on: the top row 200..207 first
Launchpad_toprow_rejected(n) == FALSE

Launchpad_toprow(n) == 199 < n /\ n < 208

Launchpad_led_on(color, n, x, y) ==
    LET c == Launchpad_get_color(color) IN
    IF n # None
      THEN IF Launchpad_toprow(n[1])
             THEN Outcome("none", <<Send(176, n[1] - 200 + 104, c)>>, "-")
           ELSE IF n[1] < 0 \/ n[1] > 120
             THEN LEDSelectionError
             ELSE Outcome("none", <<Send(144, n[1], c)>>, "-")
    ELSE IF x # None /\ y # None
      THEN IF x[1] < 0 \/ x[1] > 8 \/ y[1] < 0 \/ y[1] > 8
             THEN LEDSelectionError
           ELSE IF y[1] = 0
             THEN Outcome("none", <<Send(176, x[1] + 104, c)>>, "-")
             ELSE Outcome("none",
                    <<Send(144, (y[1] - 1) * 16 + x[1], c)>>, "-")
    ELSE LEDSelectionError

\* the launchpad classes
Models == {"Launchpad", "LaunchpadPro", "LaunchpadMiniMk3"}

led_on(model, color, n, x, y) ==
    CASE model = "Launchpad"    -> Launchpad_led_on(color, n, x, y)
      [] model = "LaunchpadPro" -> Pro_led_on(color, n, x, y)
      [] OTHER                  -> Mk3_led_on(color, n, x, y)

\* the arguments led_on is called with in the model
LedNumbers == {-1, 0, 5, 99, 100, 120, 121, 199, 200, 207, 208}
Coordinates == {-1, 0, 8, 9, 10}
Colors == {RGB(255, 0, 0), RGB(0, 128, 255)}

\* launchpad.led_on(color, n=n, x=x, y=y) on an open launchpad
Call_led_on(model, color, n, x, y) ==
    /\ output = "open" /\ call = NoCall
    /\ call' = [op |-> "led_on", model |-> model, color |-> color,
                n |-> n, x |-> x, y |-> y]
    /\ ret' = led_on(model, color, n, x, y)
    /\ UNCHANGED <<output, config, layout, lpc, lcnt, trace, changed, failures>>
    /\ UNCHANGED <<pipeVars, arrived>>

\* Button.set_state on a Button of a Pro: the state is stored, then led_on
\* writes the LED (and may raise)
Button_set_state(b, state) ==
    LET b1 == [b EXCEPT !.state = state] IN
    IF Button_led_on(state) = "none" THEN Outcome("none", <<>>, b1)
    ELSE IF ~led_on_valid(b.n) THEN Outcome("LEDSelectionError", <<>>, b1)
    ELSE Outcome("none", <<Wire_led(0, b1)>>, b1)

\* Layout.reset(other_led_off) called from outside a dispatch: the Buttons
\* before the first one whose write raises are written
RECURSIVE Reset_written(_)
Reset_written(lay) ==
    IF lay = <<>> THEN <<>>
    ELSE IF Button_led_on(Head(lay).state) # "none" /\ ~led_on_valid(Head(lay).n)
      THEN <<>>
      ELSE <<Head(lay)>> \o Reset_written(Tail(lay))

Layout_reset_call(lay, other_led_off) ==
    Outcome(IF Reset_written(lay) = lay THEN "none" ELSE "LEDSelectionError",
            (IF other_led_off THEN <<led_all_off(0)>> ELSE <<>>)
                \o Reset_leds(Reset_written(lay), 0),
            lay)

\* the Buttons and Layouts these two are called on in the model
CallButtons ==
    {[n |-> n, action |-> "press", state |-> st] :
        n \in {5, 9, 120}, st \in ButtonState}

CallLayouts ==
    {<<b>> : b \in CallButtons}
        \cup {<<b1, b2>> : b1 \in {b \in CallButtons : b.n = 5},
                           b2 \in {b \in CallButtons : b.n # 5}}

Call_set_state(b, state) ==
    /\ output = "open" /\ call = NoCall
    /\ call' = [op |-> "set_state", button |-> b, state |-> state]
    /\ ret' = Button_set_state(b, state)
    /\ UNCHANGED <<output, config, layout, lpc, lcnt, trace, changed, failures>>
    /\ UNCHANGED <<pipeVars, arrived>>

Call_reset(lay, other_led_off) ==
    /\ output = "open" /\ call = NoCall
    /\ call' = [op |-> "reset", layout |-> lay, other_led_off |-> other_led_off]
    /\ ret' = Layout_reset_call(lay, other_led_off)
    /\ UNCHANGED <<output, config, layout, lpc, lcnt, trace, changed, failures>>
    /\ UNCHANGED <<pipeVars, arrived>>

(* ---------------------------------------------------------------------- *)
(* midi.py: Message and the decoding of a wire message; enums.py: RGB;     *)
(* models: open, close and write_char                                      *)
(* ---------------------------------------------------------------------- *)

\* midi.py, Message.__init__: the state is on at intensity 127 only
Message_init(n, intensity) ==
    [n |-> n, intensity |-> intensity,
     state |-> IF intensity = 127 THEN "on" ELSE "off"]

\* the intensities of a MIDI message
Intensities == 0..127

\* Message(n=n, intensity=intensity)
Call_Message(n, intensity) ==
    /\ output = "open" /\ call = NoCall
    /\ call' = [op |-> "Message", n |-> n, intensity |-> intensity]
    /\ ret' = Outcome("none", <<>>, Message_init(n, intensity))
    /\ UNCHANGED <<output, config, layout, lpc, lcnt, trace, changed, failures>>
    /\ UNCHANGED <<pipeVars, arrived>>

\* midi.py, InputDevice.__callback on the bytes of one message: the
\* Messages it puts on the queues (obj), or the exception of the unpacking
InputDevice_decode(raw) ==
    IF Len(raw) # 3 THEN Outcome("ValueError", <<>>, <<>>)
    ELSE IF raw[1] \in {144, 176}
      THEN Outcome("none", <<>>, <<Message_init(raw[2], raw[3])>>)
      ELSE Outcome("none", <<>>, <<>>)

\* the flat LED numbers the loop-back is tried with
FlatNumbers == (0..120) \cup (200..207)

\* the message of launchpad.led_on(color, n=n) is handed to
\* InputDevice.__callback as it went over the wire
Call_loopback(model, color, n) ==
    /\ output = "open" /\ call = NoCall
    /\ call' = [op |-> "loopback", model |-> model, color |-> color, n |-> n]
    /\ ret' = LET out == led_on(model, color, Some(n), None, None) IN
              IF out.raised # "none" THEN Outcome(out.raised, <<>>, <<>>)
              ELSE LET d == InputDevice_decode(out.wire[1].data) IN
                   Outcome(d.raised, out.wire, d.obj)
    /\ UNCHANGED <<output, config, layout, lpc, lcnt, trace, changed, failures>>
    /\ UNCHANGED <<pipeVars, arrived>>

\* models/mini_mk3.py, LaunchpadMiniMk3.Layout and .Mode
Mk3_Layout_keys == 5
Mk3_Layout_programmer == 127
Mk3_Mode_programmer_mode == 1

\* models/mini_mk3.py, set_mode and set_layout; models/pro.py, set_mode
Mk3_set_mode(mode) == Sysex(<<0, 32, 41, 2, 13, 14, mode>>)
Mk3_set_layout(lay) == Sysex(<<0, 32, 41, 2, 13, 0, lay>>)
Pro_set_mode(mode) == Sysex(<<0, 32, 41, 2, 16, 33, mode>>)

\* LaunchpadBase.__init__ calls open(): LaunchpadBase.open closes what is
\* open (nothing yet), opens the input and the output device and sends
\* nothing; only LaunchpadMiniMk3 overrides open, and selects mode and layout
Launchpad_open(model) ==
    IF model = "LaunchpadMiniMk3"
      THEN <<Mk3_set_mode(Mk3_Mode_programmer_mode),
             Mk3_set_layout(Mk3_Layout_programmer)>>
      ELSE <<>>

\* a launchpad of the class is constructed
Call_open(model) ==
    /\ output = "open" /\ call = NoCall
    /\ call' = [op |-> "open", model |-> model]
    /\ ret' = Outcome("none", Launchpad_open(model), "-")
    /\ UNCHANGED <<output, config, layout, lpc, lcnt, trace, changed, failures>>
    /\ UNCHANGED <<pipeVars, arrived>>

\* the wire history of the Mk3: set_mode, set_layout
Wire_set_mode(mode) == [id |-> 0, k |-> "set_mode", n |-> mode, c |-> "-"]
Wire_set_layout(lay) == [id |-> 0, k |-> "set_layout", n |-> lay, c |-> "-"]

\* LaunchpadMiniMk3.close, lines 90-92: the keys layout is selected when the
\* output is open; then LaunchpadBase.close runs
Mk3_close_restore ==
    /\ apc = "idle"
    /\ apc' = "restored"
    /\ trace' = IF output = "open"
                  THEN Append(trace, Wire_set_layout(Mk3_Layout_keys))
                  ELSE trace
    /\ UNCHANGED <<midi, message_queue, callback_queue, callbacks, stop_event,
                   wpc, wmsg, widx, wsub, tpc, tmsg, nextId, delivered,
                   flushed, atFlush>>
    /\ UNCHANGED <<arrived, output, config, layout, lpc, lcnt, changed,
                   failures, call, ret>>

\* LaunchpadBase.close as called by LaunchpadMiniMk3.close: InputDevice.close
Mk3_close_stop == Close_stop_from("restored")

\* the colours led_on is called with: the channels are any integers
WideColors == Colors \cup {RGB(300, -10, 0), RGB(-1, 256, 255)}

\* the coordinates of the 10x10 grid
Grid == 0..9

\* enums.py, string.hexdigits and the digits of the format 'x'
Hexdigits ==
    <<"0", "1", "2", "3", "4", "5", "6", "7", "8", "9",
      "a", "b", "c", "d", "e", "f", "A", "B", "C", "D", "E", "F">>

\* int(ch, 16) of one hexadecimal digit
Hex_value(ch) ==
    LET i == CHOOSE k \in 1..22 : Hexdigits[k] = ch IN
    IF i <= 16 THEN i - 1 ELSE i - 7

\* int(s, 16) of a string of hexadecimal digits
RECURSIVE Int16(_)
Int16(s) ==
    IF s = <<>> THEN 0
    ELSE 16 * Int16(SubSeq(s, 1, Len(s) - 1)) + Hex_value(s[Len(s)])

\* format(v, 'x') of a number v >= 0
RECURSIVE Format_x(_)
Format_x(v) ==
    IF v < 16 THEN <<Hexdigits[v + 1]>>
    ELSE Format_x(v \div 16) \o <<Hexdigits[(v % 16) + 1]>>

\* format(v, '02x'): at least two digits, padded with zeros
Format_02x_unpadded(v) == Format_x(v)

Format_02x(v) == IF v < 16 THEN <<"0">> \o Format_x(v) ELSE Format_x(v)

\* enums.py, RGB.hex
RGB_hex(color) ==
    <<"#">> \o Format_02x(color.r) \o Format_02x(color.g) \o Format_02x(color.b)

\* str.strip() of blanks
RECURSIVE Strip(_)
Strip(s) ==
    IF s = <<>> THEN s
    ELSE IF s[1] = " " THEN Strip(Tail(s))
    ELSE IF s[Len(s)] = " " THEN Strip(SubSeq(s, 1, Len(s) - 1))
    ELSE s

Is_hexdigit(ch) == \E k \in 1..22 : Hexdigits[k] = ch

\* enums.py, RGB.__check_color_string: the six digits, or <<>> for the
\* ValueError
RGB_check_color_string(color) ==
    LET s == Strip(color) IN
    IF Len(s) = 7 /\ s[1] = "#" /\ \A i \in 2..7 : Is_hexdigit(s[i])
      THEN Tail(s)
    ELSE IF Len(s) = 6 /\ \A i \in 1..6 : Is_hexdigit(s[i])
      THEN s
    ELSE <<>>

\* enums.py, RGB.parse
RGB_parse(color) ==
    LET s == RGB_check_color_string(color) IN
    IF s = <<>> THEN Outcome("ValueError", <<>>, <<>>)
    ELSE Outcome("none", <<>>,
                 <<RGB(Int16(SubSeq(s, 1, 2)), Int16(SubSeq(s, 3, 4)),
                       Int16(SubSeq(s, 5, 6)))>>)

\* the colour strings RGB.parse is called with: six of these digits, with
\* or without '#', and some strings that are no colour
HexChars == {"0", "9", "c", "F"}
ColourStrings ==
    {pre \o s : pre \in {<<>>, <<"#">>}, s \in [1..6 -> HexChars]}
    \cup {<<>>, <<"#", "0", "0", "f", "f">>, <<"0", "0", "g", "0", "0", "0">>,
          <<" ", "#", "0", "A", "f", "f", "0", "1", " ">>,
          <<"#", "#", "0", "0", "0", "0", "0">>}

\* RGB.parse(RGB.parse(h).hex)
Call_parse(h) ==
    /\ output = "open" /\ call = NoCall
    /\ call' = [op |-> "parse", h |-> h]
    /\ ret' = LET p == RGB_parse(h) IN
              IF p.raised # "none" THEN p
              ELSE LET again == RGB_parse(RGB_hex(p.obj[1])) IN
                   Outcome(again.raised, <<>>, p.obj \o again.obj)
    /\ UNCHANGED <<output, config, layout, lpc, lcnt, trace, changed, failures>>
    /\ UNCHANGED <<pipeVars, arrived>>

\* the channel values RGB.scale is called with
Channels == 0..255

\* RGB(c, c, c).scale(0, 63).scale(0, 255)
Call_scale(c) ==
    /\ output = "open" /\ call = NoCall
    /\ call' = [op |-> "scale", c |-> c]
    /\ ret' = LET s == RGB_scale(RGB(c, c, c), 0, 63) IN
              Outcome("none", <<>>, <<s, RGB_scale(s, 0, 255)>>)
    /\ UNCHANGED <<output, config, layout, lpc, lcnt, trace, changed, failures>>
    /\ UNCHANGED <<pipeVars, arrived>>

\* lppy/chartab.py, CHAR_TAB: eight row bytes for a character; the blank,
\* a bar in the leftmost column, a box, and the full square
CHAR_TAB ==
    [blank |-> <<0, 0, 0, 0, 0, 0, 0, 0>>,
     bar   |-> <<128, 128, 128, 128, 128, 128, 128, 128>>,
     box   |-> <<255, 129, 129, 129, 129, 129, 129, 255>>,
     full  |-> <<255, 255, 255, 255, 255, 255, 255, 255>>]

Chars == {"blank", "bar", "box", "full"}

\* codes[index] & 0x80 >> j
Pixel(codes, index, j) == (codes[index + 1] \div (2 ^ (7 - j))) % 2 = 1

\* the first LED of each row: range(81, 1, -10) and range(0, 8 * 16, 16)
Write_char_row_from_91(model, index) ==
    IF model = "Launchpad" THEN 16 * index ELSE 91 - 10 * index

Write_char_row(model, index) ==
    IF model = "Launchpad" THEN 16 * index ELSE 81 - 10 * index

\* write_char, the loop over the rows (index) and the columns (j), as the
\* positions k = 8 * index + j in the order of the loop: the LED of a
\* position, and whether `i <= n < i + 8` lets it be written
Write_char_led(model, offset, k) ==
    Write_char_row(model, k \div 8) + (k % 8) + offset

Write_char_writes(model, offset, k) ==
    LET i == Write_char_row(model, k \div 8)
        n == Write_char_led(model, offset, k) IN
    i <= n /\ n < i + 8

\* models/pro.py and models/launchpad.py, write_char: the LEDs it writes, in
\* order, each lit or black
Write_char(model, char, offset) ==
    LET ks == SelectSeq([k \in 1..64 |-> k - 1],
                        LAMBDA k : Write_char_writes(model, offset, k)) IN
    [x \in 1..Len(ks) |->
        [n   |-> Write_char_led(model, offset, ks[x]),
         lit |-> Pixel(CHAR_TAB[char], ks[x] \div 8, ks[x] % 8)]]

\* the LEDs that are lit once the writes are made on a board: the last
\* write of an LED decides
Board_after(board, writes) ==
    LET At(n) == {x \in 1..Len(writes) : writes[x].n = n}
        Last(n) == CHOOSE x \in At(n) : \A z \in At(n) : z <= x IN
    {n \in board \cup {writes[x].n : x \in 1..Len(writes)} :
        IF At(n) = {} THEN n \in board ELSE writes[Last(n)].lit}

\* the offsets write_char is called with
Offsets == {-1, 0, 1, 8}

\* write_char(first, color, at) and then write_char(char, color, offset) on
\* a dark board, with a colour that is not black
Call_write_char(model, first, at, char, offset) ==
    /\ output = "open" /\ call = NoCall
    /\ call' = [op |-> "write_char", model |-> model, first |-> first,
                at |-> at, char |-> char, offset |-> offset]
    /\ ret' = LET before == Board_after({}, Write_char(model, first, at)) IN
              Outcome("none", <<>>,
                      <<before,
                        Board_after(before, Write_char(model, char, offset))>>)
    /\ UNCHANGED <<output, config, layout, lpc, lcnt, trace, changed, failures>>
    /\ UNCHANGED <<pipeVars, arrived>>

\* what a state function does when it is called: it returns a state or
\* raises
StateFuncResults == {"on", "err", "raise"}

\* Button.from_dict and Button.__init__, the state of the new Button:
\* initial_state is ButtonState(d.get("initial_state", "off")), which raises
\* ValueError for a value that is no member; state_func is None when the
\* entry has none, get_callable(state_func) otherwise; the state is
\* initial_state when state_func is None, the value the one call of
\* state_func returns otherwise. obj is <<state, calls of state_func>>.
Button_init_initial_only(initial_state, state_func, result) ==
    LET initial == IF initial_state = None THEN "off" ELSE initial_state[1] IN
    IF initial \notin ButtonState
      THEN Outcome("ValueError", <<>>, <<>>)
      ELSE Outcome("none", <<>>, <<initial, 0>>)

Button_init(initial_state, state_func, result) ==
    LET initial == IF initial_state = None THEN "off" ELSE initial_state[1]
        func == IF state_func = None THEN "None"
                                     ELSE get_callable(state_func[1]) IN
    IF initial \notin ButtonState
      THEN Outcome("ValueError", <<>>, <<>>)
    ELSE IF func = "None"
      THEN Outcome("none", <<>>, <<initial, 0>>)
    ELSE IF result = "raise"
      THEN Outcome("Exception", <<>>, <<>>)
      ELSE Outcome("none", <<>>, <<result, 1>>)

\* the initial_state values and the state_func paths of the entries
InitialStates == ButtonState \cup {"blink"}

StateFuncs == {"states:get", "states:missing"}

\* Button.from_dict on an entry whose command can be imported
Call_Button(initial_state, state_func, result) ==
    /\ output = "open" /\ call = NoCall
    /\ call' = [op |-> "Button", initial_state |-> initial_state,
                state_func |-> state_func, result |-> result]
    /\ ret' = Button_init(initial_state, state_func, result)
    /\ UNCHANGED <<output, config, layout, lpc, lcnt, trace, changed, failures>>
    /\ UNCHANGED <<pipeVars, arrived>>

\* base.py, LaunchpadBase._limit
Limit_unclamped(n, minimum, maximum) == n

Limit(n, minimum, maximum) == Max(Min(maximum, n), minimum)

\* base.py, write_string, the body of the loop of a scroll at step n over a
\* padded string of length len: the write_char calls it makes, each with
\* the index of its character and its offset
Scroll_step_late(len, n) ==
    (IF n <= len * 8
       THEN <<[index  |-> Limit((n \div 16) * 2, 0, len - 1),
               offset |-> 8 - (n % 16)]>>
       ELSE <<>>)
    \o (IF n > 7
          THEN <<[index  |-> Limit((((n - 8) \div 16) * 2) + 1, 0, len - 1),
                  offset |-> 7 - ((n - 8) % 16)]>>
          ELSE <<>>)

Scroll_step(len, n) ==
    (IF n <= len * 8
       THEN <<[index  |-> Limit((n \div 16) * 2, 0, len - 1),
               offset |-> 8 - (n % 16)]>>
       ELSE <<>>)
    \o (IF n > 7
          THEN <<[index  |-> Limit((((n - 8) \div 16) * 2) + 1, 0, len - 1),
                  offset |-> 8 - ((n - 8) % 16)]>>
          ELSE <<>>)

\* base.py, write_string: the string as the scroll pads it
Padded_bare(text, scroll) == text

Padded(text, scroll) ==
    CASE scroll = "left"  -> text \o <<"blank">>
      [] scroll = "right" -> <<"blank">> \o text \o <<"blank">>
      [] OTHER            -> text

\* base.py, write_string: the paced steps (one per time.sleep), in order,
\* each the write_char calls of the step
Write_string_steps(text, scroll) ==
    LET len == Len(Padded(text, scroll)) IN
    CASE scroll = "left" ->
           [k \in 1..((len + 1) * 8) |-> Scroll_step(len, k - 1)]
      [] scroll = "right" ->
           [k \in 1..((len + 1) * 8 - 7) |->
                Scroll_step(len, (len + 1) * 8 - 7 - (k - 1))]
      [] OTHER ->
           [k \in 1..(4 * len) |-> <<[index |-> (k - 1) \div 4, offset |-> 0]>>]

\* string[index] of a string of length len raises IndexError outside
\* -len..len-1
Index_error(len, index) == index >= len \/ index < -len

\* string[index]: a negative index counts from the end
Char_at(string, index) ==
    IF index < 0 THEN string[Len(string) + index + 1] ELSE string[index + 1]

\* the write_char calls of all steps, in order
RECURSIVE Flatten(_)
Flatten(steps) ==
    IF steps = <<>> THEN <<>> ELSE Head(steps) \o Flatten(Tail(steps))

\* the board after the write_char calls are made on it
RECURSIVE Board_after_calls(_, _, _, _)
Board_after_calls(board, model, string, calls) ==
    IF calls = <<>> THEN board
    ELSE Board_after_calls(
           Board_after(board, Write_char(model, Char_at(string, Head(calls).index),
                                         Head(calls).offset)),
           model, string, Tail(calls))

\* the LEDs of the 8x8 grid of a class
Grid_leds(model) == {Write_char_row(model, r) + c : r \in 0..7, c \in 0..7}

\* base.py, write_string on a board whose grid is all lit: the steps, and
\* the LEDs of the grid that are lit when it returns
Write_string(model, text, scroll) ==
    LET string == Padded(text, scroll)
        steps  == Write_string_steps(text, scroll)
        calls  == Flatten(steps) IN
    IF \E i \in 1..Len(calls) : Index_error(Len(string), calls[i].index)
      THEN Outcome("IndexError", <<>>, <<>>)
      ELSE Outcome("none", <<>>,
                   <<steps, Board_after_calls(Grid_leds(model), model,
                                              string, calls)>>)

\* length of the longest text write_string is called with
MaxLen == 2

\* the texts: the characters are glyphs of CHAR_TAB
TextChars == {"box", "full"}
Texts == UNION {[1..l -> TextChars] : l \in 0..MaxLen}

\* the classes that define write_char (the Mk3 inherits the one of the Pro)
WriteCharModels == {"Launchpad", "LaunchpadPro"}

\* launchpad.write_string(text, color, scroll) with a colour that is not
\* black
Call_write_string(model, text, scroll) ==
    /\ output = "open" /\ call = NoCall
    /\ call' = [op |-> "write_string", model |-> model, text |-> text,
                scroll |-> scroll]
    /\ ret' = Write_string(model, text, scroll)
    /\ UNCHANGED <<output, config, layout, lpc, lcnt, trace, changed, failures>>
    /\ UNCHANGED <<pipeVars, arrived>>

\* write_char: led_on for each LED of the loop, until one raises
Write_char_wire(model, color, writes) ==
    LET out(x) == led_on(model,
                         IF writes[x].lit THEN color ELSE RGB(0, 0, 0),
                         Some(writes[x].n), None, None)
        raising == {x \in 1..Len(writes) : out(x).raised # "none"}
        sent == IF raising = {} THEN Len(writes)
                ELSE (CHOOSE x \in raising : \A z \in raising : x <= z) - 1 IN
    Outcome(IF raising = {} THEN "none" ELSE "LEDSelectionError",
            [x \in 1..sent |-> out(x).wire[1]], "-")

\* the offsets one write_char is called with
AnyOffsets == -10..10

\* launchpad.write_char(char, color, offset)
Call_write_char_once(model, char, color, offset) ==
    /\ output = "open" /\ call = NoCall
    /\ call' = [op |-> "write_char_once", model |-> model, char |-> char,
                color |-> color, offset |-> offset]
    /\ ret' = Write_char_wire(model, color, Write_char(model, char, offset))
    /\ UNCHANGED <<output, config, layout, lpc, lcnt, trace, changed, failures>>
    /\ UNCHANGED <<pipeVars, arrived>>

(* ---------------------------------------------------------------------- *)
(* layout.py: Layout.__init__, step by step                                *)
(* ---------------------------------------------------------------------- *)

\* the entries and "layout" lists Layout.__init__ is given in the model
LoadEntries ==
    { Btn(5, "press", "off"), Btn(9, "click", "on"), Btn(120, "press", "on"),
      Btn(120, "press", "no_change"),
      Unresolved(Btn(5, "press", "off")), Unresolved(Btn(9, "click", "on")) }

LoadConfigs ==
    Configs \cup {<<d>> : d \in LoadEntries}
            \cup {<<d1, d2>> : d1 \in LoadEntries, d2 \in LoadEntries}

\* an exception leaves Layout.__init__: no Layout object exists
Layout_init_raise(kind) ==
    /\ lpc' = "raised"
    /\ failures' = failures \cup {[id |-> 0, kind |-> kind]}

\* Layout.__init__, one round of `for button_data in data["layout"]`:
\* Button.from_dict makes the Button (and its Callback), the dict stores it
Layout_init_load ==
    /\ lpc = "load"
    /\ IF lcnt > Len(config)
         THEN /\ lpc' = "reset"
              /\ UNCHANGED <<layout, lcnt, failures>>
       ELSE IF Callback_init_raises(config[lcnt].command)
         THEN /\ Layout_init_raise("TypeError")
              /\ UNCHANGED <<layout, lcnt>>
         ELSE /\ layout' = Layout_setitem(layout, Button_from_dict(config[lcnt]))
              /\ lcnt' = lcnt + 1
              /\ UNCHANGED <<lpc, failures>>
    /\ UNCHANGED <<output, config, trace, changed, call, ret>>
    /\ UNCHANGED <<pipeVars, arrived>>

\* Layout.__init__, `self.reset()`
Layout_init_reset ==
    /\ lpc = "reset"
    /\ trace' = trace \o Layout_reset_call(layout, TRUE).wire
    /\ IF Layout_reset_call(layout, TRUE).raised = "none"
         THEN lpc' = "register" /\ UNCHANGED failures
         ELSE Layout_init_raise("LEDSelectionError")
    /\ UNCHANGED <<output, config, layout, lcnt, changed, call, ret>>
    /\ UNCHANGED <<pipeVars, arrived>>

\* Layout.__init__, the three set_callback calls; the Layout exists
Layout_init_register ==
    /\ lpc = "register"
    /\ callbacks' = Layout_register(callbacks)
    /\ lpc' = "start"
    /\ lcnt' = 0
    /\ UNCHANGED <<midi, message_queue, callback_queue, stop_event, wpc, wmsg,
                   widx, wsub, tpc, tmsg, apc, nextId, delivered, flushed,
                   atFlush>>
    /\ UNCHANGED <<output, config, layout, trace, changed, failures, call, ret>>
    /\ UNCHANGED arrived

(* ---------------------------------------------------------------------- *)
(* Specifications                                                          *)
(* ---------------------------------------------------------------------- *)

Worker ==
    \/ Worker_while
    \/ Worker_get
    \/ Worker_for
    \/ Worker_call_generic

\* the input device alone: no Layout, any subscribers
Init ==
    /\ InputDeviceInit
    /\ callbacks = <<>>
    /\ output = "open"
    /\ config = <<>>
    /\ layout = <<>>
    /\ lpc = "start"
    /\ lcnt = 0
    /\ trace = <<>>
    /\ changed = {}
    /\ failures = {}
    /\ call = NoCall
    /\ ret = NoRet

Next ==
    \/ \E e \in {Ev(5, "press")} : Callback_put1(e.n, e.action)
    \/ Callback_put2
    \/ Worker
    \/ \E s \in GenericSubs : App_set_callback(s)
    \/ \E s \in GenericSubs : App_remove_callback(s)
    \/ App_read
    \/ Flush_message_queue
    \/ Flush_callback_queue
    \/ Close_stop
    \/ Close_release

Spec == Init /\ [][Next]_vars

\* a launchpad with a Layout: Layout(path, launchpad) has been constructed
\* from one of the configurations, and one more subscriber registered after it
LayoutInit ==
    /\ InputDeviceInit
    /\ config \in Configs
    /\ Layout_loads(config)
    /\ layout = Layout_load(<<>>, config)
    /\ Layout_constructs(layout)
    /\ trace = Layout_reset(layout, 0)
    /\ callbacks = set_callback(Layout_register(<<>>), "A")
    /\ output = "open"
    /\ lpc = "start"
    /\ lcnt = 0
    /\ changed = {}
    /\ failures = {}
    /\ call = NoCall
    /\ ret = NoRet

LayoutWorker ==
    \/ Worker
    \/ Layout_callback_execute
    \/ Layout_write_char
    \/ Layout_write_string
    \/ Layout_reset_off
    \/ Layout_reset_led

\* the launchpad stays open
LayoutNext ==
    \/ \E e \in Events : Callback_put1(e.n, e.action)
    \/ Callback_put2
    \/ LayoutWorker

LayoutSpec == LayoutInit /\ [][LayoutNext]_vars

\* the application may close the launchpad (LaunchpadBase.close) at any time
ShutdownNext ==
    \/ LayoutNext
    \/ Close_stop
    \/ Close_release
    \/ Close_output

ShutdownSpec == LayoutInit /\ [][ShutdownNext]_vars

\* Layout(path, launchpad) is being constructed on an open launchpad
LoadInit ==
    /\ InputDeviceInit
    /\ callbacks = <<>>
    /\ output = "open"
    /\ config \in LoadConfigs
    /\ layout = <<>>
    /\ lpc = "load"
    /\ lcnt = 1
    /\ trace = <<>>
    /\ changed = {}
    /\ failures = {}
    /\ call = NoCall
    /\ ret = NoRet

LoadNext ==
    \/ Layout_init_load
    \/ Layout_init_reset
    \/ Layout_init_register

LoadSpec == LoadInit /\ [][LoadNext]_vars

\* the transport side of the input device: raw messages of any kind arrive,
\* one subscriber is registered, the application polls
TransportInit ==
    /\ InputDeviceInit
    /\ callbacks = set_callback(<<>>, "A")
    /\ output = "open"
    /\ config = <<>>
    /\ layout = <<>>
    /\ lpc = "start"
    /\ lcnt = 0
    /\ trace = <<>>
    /\ changed = {}
    /\ failures = {}
    /\ call = NoCall
    /\ ret = NoRet

TransportNext ==
    \/ \E raw \in RawMessages : InputDevice_callback(raw)
    \/ Callback_put2
    \/ Worker
    \/ App_read

TransportSpec == TransportInit /\ [][TransportNext]_vars

\* the input device with subscribers A and B registered, in this order: the
\* application registers and unregisters A and flushes while messages
\* arrive and the worker delivers; B is never unregistered and the
\* application never polls
RaceInit ==
    /\ InputDeviceInit
    /\ callbacks = set_callback(set_callback(<<>>, "A"), "B")
    /\ output = "open"
    /\ config = <<>>
    /\ layout = <<>>
    /\ lpc = "start"
    /\ lcnt = 0
    /\ trace = <<>>
    /\ changed = {}
    /\ failures = {}
    /\ call = NoCall
    /\ ret = NoRet

RaceNext ==
    \/ \E e \in {Ev(5, "press")} : Callback_put1(e.n, e.action)
    \/ Callback_put2
    \/ Worker
    \/ App_set_callback("A")
    \/ App_remove_callback("A")
    \/ Flush_message_queue
    \/ Flush_callback_queue

RaceSpec == RaceInit /\ [][RaceNext]_vars

\* LaunchpadBase.__init__, lines 17-18: no input and no output device; no
\* InputDevice exists, so no worker thread has been started; __init__ goes
\* on to call open() of the class
OpenInit ==
    /\ midi = "none"
    /\ message_queue = <<>>
    /\ callback_queue = <<>>
    /\ callbacks = <<>>
    /\ stop_event = FALSE
    /\ wpc = "unstarted"
    /\ wmsg = NoMsg
    /\ widx = 0
    /\ wsub = "none"
    /\ tpc = "idle"
    /\ tmsg = NoMsg
    /\ apc = "open"
    /\ nextId = 1
    /\ delivered = <<>>
    /\ flushed = {}
    /\ atFlush = {}
    /\ arrived = <<>>
    /\ output = "none"
    /\ config = <<>>
    /\ layout = <<>>
    /\ lpc = "start"
    /\ lcnt = 0
    /\ trace = <<>>
    /\ changed = {}
    /\ failures = {}
    /\ call \in {[op |-> "open", model |-> m, closes |-> 0] : m \in Models}
    /\ ret = NoRet

\* LaunchpadBase.open, lines 27-30: close() finds nothing open; then
\* Midi.open_device for the input: when a port matches, the port is opened
\* and InputDevice.__init__ starts the worker thread; otherwise
\* InputDeviceNotFound leaves open()
Open_input(found) ==
    /\ apc = "open"
    /\ IF found
         THEN /\ midi' = "open"
              /\ wpc' = "while"
              /\ apc' = "open_output"
              /\ UNCHANGED ret
         ELSE /\ ret' = Outcome("InputDeviceNotFound", <<>>, <<>>)
              /\ apc' = "failed"
              /\ UNCHANGED <<midi, wpc>>
    /\ UNCHANGED <<message_queue, callback_queue, callbacks, stop_event, wmsg,
                   widx, wsub, tpc, tmsg, nextId, delivered, flushed, atFlush>>
    /\ UNCHANGED <<arrived, output, config, layout, lpc, lcnt, trace, changed,
                   failures, call>>

\* LaunchpadBase.open, lines 31-33: Midi.open_device for the output: when a
\* port matches, self.output is the open device; otherwise
\* OutputDeviceNotFound leaves open() (and __init__), and nothing is done
\* about self.input
Open_output(found) ==
    /\ apc = "open_output"
    /\ IF found
         THEN /\ output' = "open"
              /\ apc' = IF call.model = "LaunchpadMiniMk3" THEN "open_mode"
                                                           ELSE "idle"
              /\ UNCHANGED ret
         ELSE /\ ret' = Outcome("OutputDeviceNotFound", <<>>, <<>>)
              /\ apc' = "failed"
              /\ UNCHANGED output
    /\ UNCHANGED <<midi, message_queue, callback_queue, callbacks, stop_event,
                   wpc, wmsg, widx, wsub, tpc, tmsg, nextId, delivered,
                   flushed, atFlush>>
    /\ UNCHANGED <<arrived, config, layout, lpc, lcnt, trace, changed,
                   failures, call>>

\* LaunchpadMiniMk3.open, lines 84-85: after LaunchpadBase.open the
\* programmer mode and the programmer layout are selected
Mk3_open_mode ==
    /\ apc = "open_mode"
    /\ trace' = trace \o <<Wire_set_mode(Mk3_Mode_programmer_mode),
                            Wire_set_layout(Mk3_Layout_programmer)>>
    /\ apc' = "idle"
    /\ UNCHANGED <<midi, message_queue, callback_queue, callbacks, stop_event,
                   wpc, wmsg, widx, wsub, tpc, tmsg, nextId, delivered,
                   flushed, atFlush>>
    /\ UNCHANGED <<arrived, output, config, layout, lpc, lcnt, changed,
                   failures, call, ret>>

\* close() of the class as one call, on a launchpad whose input and output
\* are as given: LaunchpadMiniMk3.close selects the keys layout when the
\* output is open; LaunchpadBase.close closes the input device when there is
\* an open one (InputDevice.close sets the stop flag) and sets self.input to
\* None, and the same for the output
Launchpad_close_restoring(model, input, out) ==
    [wire   |-> IF model = "LaunchpadMiniMk3"
                  THEN <<Wire_set_layout(Mk3_Layout_keys)>> ELSE <<>>,
     stop   |-> input = "open",
     input  |-> IF input = "open" THEN "none" ELSE input,
     output |-> IF out = "open" THEN "none" ELSE out]

Launchpad_close(model, input, out) ==
    [wire   |-> IF model = "LaunchpadMiniMk3" /\ out = "open"
                  THEN <<Wire_set_layout(Mk3_Layout_keys)>> ELSE <<>>,
     stop   |-> input = "open",
     input  |-> IF input = "open" THEN "none" ELSE input,
     output |-> IF out = "open" THEN "none" ELSE out]

\* how many times the application calls close() on one launchpad
MaxCloses == 3

\* the application calls close() again, after a close() that has returned
Close_again ==
    /\ apc \in {"closed", "closed_again"}
    /\ output = "none"
    /\ call.closes < MaxCloses
    /\ LET r == Launchpad_close(call.model, midi, output) IN
        /\ trace' = trace \o r.wire
        /\ midi' = r.input
        /\ output' = r.output
        /\ stop_event' = (stop_event \/ r.stop)
        /\ ret' = Outcome("none", r.wire, <<r.input, r.output>>)
    /\ call' = [call EXCEPT !.op = "close",
                            !.closes = IF @ = 0 THEN 2 ELSE @ + 1]
    /\ apc' = "closed_again"
    /\ UNCHANGED <<message_queue, callback_queue, callbacks, wpc, wmsg, widx,
                   wsub, tpc, tmsg, nextId, delivered, flushed, atFlush>>
    /\ UNCHANGED <<arrived, config, layout, lpc, lcnt, changed, failures>>

\* a launchpad of any class is constructed (both ports found or not), a
\* subscriber is registered, buttons are pressed, and the application closes
\* the launchpad, more than once
OpenNext ==
    \/ \E found \in BOOLEAN : Open_input(found)
    \/ \E found \in BOOLEAN : Open_output(found)
    \/ Mk3_open_mode
    \/ App_set_callback("A")
    \/ \E e \in {Ev(5, "press")} : Callback_put1(e.n, e.action)
    \/ Callback_put2
    \/ Worker
    \/ call.model # "LaunchpadMiniMk3" /\ Close_stop
    \/ call.model = "LaunchpadMiniMk3" /\ Mk3_close_restore
    \/ Mk3_close_stop
    \/ Close_release
    \/ Close_output
    \/ Close_again

OpenSpec == OpenInit /\ [][OpenNext]_vars

\* one call of a device, Button or Layout operation, with any arguments
CallNext ==
    \/ \E m \in Models, c \in Colors, n \in Opt(LedNumbers),
          x \in Opt(Coordinates), y \in Opt(Coordinates) :
            Call_led_on(m, c, n, x, y)
    \/ \E b \in CallButtons, st \in ButtonState : Call_set_state(b, st)
    \/ \E lay \in CallLayouts, off \in BOOLEAN : Call_reset(lay, off)

CallSpec == Init /\ [][CallNext]_vars

\* a LaunchpadMiniMk3 is constructed, then a Layout on it
Mk3Init ==
    /\ InputDeviceInit
    /\ config = <<Btn(5, "press", "off"), Btn(9, "click", "on")>>
    /\ Layout_loads(config)
    /\ layout = Layout_load(<<>>, config)
    /\ Layout_constructs(layout)
    /\ trace = <<Wire_set_mode(Mk3_Mode_programmer_mode),
                 Wire_set_layout(Mk3_Layout_programmer)>>
               \o Layout_reset(layout, 0)
    /\ callbacks = set_callback(Layout_register(<<>>), "A")
    /\ output = "open"
    /\ lpc = "start"
    /\ lcnt = 0
    /\ changed = {}
    /\ failures = {}
    /\ call = NoCall
    /\ ret = NoRet

\* the button pressed on the Mk3
Mk3Events == {Ev(5, "press")}

\* the application may close the Mk3 (LaunchpadMiniMk3.close) at any time
Mk3Next ==
    \/ \E e \in Mk3Events : Callback_put1(e.n, e.action)
    \/ Callback_put2
    \/ LayoutWorker
    \/ Mk3_close_restore
    \/ Mk3_close_stop
    \/ Close_release
    \/ Close_output

Mk3Spec == Mk3Init /\ [][Mk3Next]_vars

\* one call of the codec in a run: Message, led_on and the decoder, open,
\* RGB, write_char
CodecNext ==
    \/ call = NoCall /\ \E i \in Intensities : Call_Message(5, i)
    \/ call = NoCall /\ \E m \in Models, c \in Colors, n \in FlatNumbers :
          Call_loopback(m, c, n)
    \/ call = NoCall /\ \E m \in Models : Call_open(m)
    \/ call = NoCall /\ \E m \in Models, c \in WideColors, n \in Opt({5}),
          x \in Opt(Grid), y \in Opt(Grid) : Call_led_on(m, c, n, x, y)
    \/ call = NoCall /\ \E h \in ColourStrings : Call_parse(h)
    \/ call = NoCall /\ \E c \in Channels : Call_scale(c)
    \/ call = NoCall /\ \E m \in Models, first \in Chars, at \in Offsets,
          char \in Chars, offset \in Offsets :
            Call_write_char(m, first, at, char, offset)
    \/ call = NoCall /\ \E i \in Opt(InitialStates), f \in Opt(StateFuncs),
          r \in StateFuncResults : Call_Button(i, f, r)

CodecSpec == Init /\ [][CodecNext]_vars

\* one call of write_string or of write_char in a run
ScrollNext ==
    \/ call = NoCall /\ \E m \in WriteCharModels, text \in Texts, sc \in Scroll :
          Call_write_string(m, text, sc)
    \/ call = NoCall /\ \E m \in Models, char \in Chars, offset \in AnyOffsets :
          Call_write_char_once(m, char, RGB(255, 0, 0), offset)

ScrollSpec == Init /\ [][ScrollNext]_vars

(* ---------------------------------------------------------------------- *)
(* Properties of the input device (Spec)                                   *)
(* ---------------------------------------------------------------------- *)

Delivered(id, sub) ==
    \E k \in 1..Len(delivered) : delivered[k].id = id /\ delivered[k].sub = sub

\* the callback invocation a step starts, if it starts one
Starts(id) ==
    /\ Len(delivered') = Len(delivered) + 1
    /\ delivered'[Len(delivered')].id = id

\* C1: callbacks are invoked in the arrival order of their messages, and for
\* one message in the order of the callback list: of two invocations the
\* later one is for a later message, or for the same message at a later
\* place of the list.
C1_ArrivalOrder ==
    \A i, j \in 1..Len(delivered) :
        i < j =>
            \/ delivered[i].id < delivered[j].id
            \/ /\ delivered[i].id = delivered[j].id
               /\ delivered[i].pos < delivered[j].pos

\* two messages, each delivered to two subscribers
C1_Witness ==
    /\ Len(delivered) = 4
    /\ delivered[1].id = 1 /\ delivered[2].id = 1
    /\ delivered[3].id = 2 /\ delivered[4].id = 2
    /\ delivered[1].sub # delivered[2].sub
    /\ delivered[3].sub # delivered[4].sub

\* C2 as stated: once flush() has been invoked, no message that was queued
\* or already taken by the worker at that moment is delivered to a subscriber.
C2_FlushDropsQueuedAndTaken ==
    [][\A id \in atFlush : ~Starts(id)]_vars

\* C2 as amended: no message that flush() removed from the callback queue is
\* delivered to a subscriber afterwards.
C2_FlushDropsQueued ==
    [][\A id \in flushed : ~Starts(id)]_vars

\* flush() ran with one message queued and one taken by the worker: the
\* taken one has been delivered, the queued one has not, and the worker is
\* waiting on the empty queue again
C2_Witness ==
    /\ apc = "idle" /\ wpc = "get" /\ callback_queue = <<>>
    /\ flushed = {2} /\ atFlush = {1, 2}
    /\ \E s \in GenericSubs : Delivered(1, s)
    /\ \A s \in GenericSubs : ~Delivered(2, s)

\* C3: close() returns only after an in-flight delivery has finished and no
\* callback is started after it has returned: once close() has returned no
\* subscriber callback is running.
C3_CloseWaitsForDelivery ==
    apc = "closed" => wpc # "call"

\* C4: after close() the worker terminates: once close() has returned and
\* the transport is silent, the worker has ended or can take a step.
C4_WorkerTerminates ==
    (apc = "closed" /\ tpc = "idle") => (wpc = "done" \/ ENABLED Worker)

\* C6: a handler that raises does not keep the event from the subscribers
\* after it: when the worker gives up a message because a callback raised,
\* every registered subscriber has been called with it.
C6_RaisingHandlerSkipsNobody ==
    [][(wpc = "call" /\ wpc' = "while") =>
          \A i \in 1..Len(callbacks) : Delivered(wmsg.id, callbacks[i])]_vars

IsButtonMessage(raw) == Len(raw) = 3 /\ raw[1] \in {144, 176}

\* C20: handling a raw transport message never raises, and a message that
\* is not a button message (any status other than 144 and 176, any length
\* other than three bytes) leaves both queues as they were.
C20_RawHandlingNeverRaises ==
    [][(call' # call /\ call'.op = "__callback") =>
          /\ ret'.raised = "none"
          /\ ~IsButtonMessage(call'.raw) =>
                UNCHANGED <<message_queue, callback_queue>>]_vars

(* ---------------------------------------------------------------------- *)
(* Properties of the dispatch (LayoutSpec, ShutdownSpec)                   *)
(* ---------------------------------------------------------------------- *)

\* the worker is inside Layout.callback
InLayoutCallback == wpc = "call" /\ wsub = LayoutSub

Bound(n) == \E i \in 1..Len(layout) : layout[i].n = n

\* a Button of the layout is bound to the message's number and its trigger
\* kind is the message's kind
Triggers(m) ==
    \E i \in 1..Len(layout) : layout[i].n = m.n /\ layout[i].action = m.action

Entries(id) == {k \in 1..Len(trace) : trace[k].id = id}

Invocations(id) == {k \in Entries(id) : trace[k].k = "invoke"}

\* the worker has taken message id and is through with it
Finished(id) == id \in 1..Len(arrived) /\ Delivered(id, LayoutSub) /\ wmsg.id # id

\* C5: the wire messages of two events are not interleaved: everything the
\* dispatch of an earlier event sends precedes everything a later event
\* causes (the event numbers along the history never decrease), and an event
\* still waiting in the queue has caused nothing (a running scroll holds it
\* back).
C5_NoInterleaving ==
    /\ \A i \in 1..(Len(trace) - 1) : trace[i].id <= trace[i + 1].id
    /\ \A q \in 1..Len(callback_queue) : Entries(callback_queue[q].id) = {}

\* two events, each answered by a text: the frames and the reset of the
\* first are all on the wire and the scroll of the second is running
C5_Witness ==
    /\ InLayoutCallback /\ wmsg.id = 2 /\ lpc = "text"
    /\ \E k \in Entries(2) : trace[k].k = "frame"
    /\ Cardinality({k \in Entries(1) : trace[k].k = "frame"}) = 4
    /\ \E k \in Entries(1) : trace[k].k = "led"

\* the action of event id has ended in the given way
Returned(id, how) ==
    \E k \in Entries(id) : trace[k].k = "result" /\ trace[k].c = how

InvokeAt(id) == CHOOSE k \in Entries(id) : trace[k].k = "invoke"

ResultAt(id) == CHOOSE k \in Entries(id) : trace[k].k = "result"

\* what the Layout has sent for event id after the action ended
After(id) ==
    SelectSeq(SubSeq(trace, ResultAt(id) + 1, Len(trace)),
              LAMBDA e : e.id = id)

FrameSeq(id, steps) ==
    [i \in 1..steps |-> [id |-> id, k |-> "frame", n |-> 0, c |-> "result"]]

IsPrefix(a, b) == Len(a) <= Len(b) /\ a = SubSeq(b, 1, Len(a))

\* the reset of the running dispatch has written its last Button
ResetDone == InLayoutCallback /\ lpc = "reset_led" /\ lcnt > Len(layout)

\* the Layout with every Button in the state it had before event id
PriorLayout(id) ==
    [i \in 1..Len(layout) |->
        IF layout[i].n = trace[InvokeAt(id)].n
          THEN [layout[i] EXCEPT !.state = trace[InvokeAt(id)].c]
          ELSE layout[i]]

C12_CharRendersGlyphOnly ==
    \A id \in 1..Len(arrived) :
        Returned(id, "char") =>
            \A k \in 1..Len(After(id)) : After(id)[k].k = "glyph"

\* C13: when the action returns a Result with neither a character nor a
\* text, the Layout writes per-button colours only: it sends no
\* all-LEDs-off command.
C13_EmptyResultNoWipe ==
    \A id \in 1..Len(arrived) :
        Returned(id, "empty") =>
            \A k \in 1..Len(After(id)) : After(id)[k].k = "led"

\* C14: when the action raises, the failure is treated as no Result: the
\* Layout sends no wire message for the event once the action has ended
\* (what the action itself did to its Button before it raised is not
\* counted against the claim).
C14_FailedActionLeavesBoardUnchanged ==
    \A id \in 1..Len(arrived) :
        Returned(id, "raise") => After(id) = <<>>

\* C7: an error during a dispatch stays inside Layout.callback: the
\* subscriber after the Layout still gets that event, the worker ends only
\* when it is told to stop, every finished event that triggers a Button was
\* dispatched to its action exactly once, and the dispatch of an event has
\* changed the state of no Button but the one the event is bound to.
C7_ErrorsCaughtAtDispatch ==
    /\ \A id \in 1..Len(arrived) :
          Finished(id) =>
              /\ Delivered(id, "A")
              /\ Triggers(arrived[id]) => Cardinality(Invocations(id)) = 1
    /\ wpc = "done" => stop_event
    /\ \A ch \in changed : arrived[ch.id].n = ch.n

\* the dispatch of the first event failed twice (the action raised on the
\* invalid LED number, then the reset did), the second event was dispatched
\* all the same and its reset failed on the closed output; both events
\* reached the subscriber after the Layout
C7_Witness ==
    /\ [id |-> 1, kind |-> "action"] \in failures
    /\ [id |-> 1, kind |-> "selection"] \in failures
    /\ [id |-> 2, kind |-> "write"] \in failures
    /\ Cardinality(Invocations(2)) = 1
    /\ Delivered(1, "A") /\ Delivered(2, "A")

\* C8: an event whose number is bound to no Button invokes no action,
\* changes no Button state and sends no wire message: no invocation, no
\* wire message and no state change in the history belongs to such an event.
C8_UnboundEventIgnored ==
    \A id \in 1..Len(arrived) :
        ~Bound(arrived[id].n) =>
            /\ Entries(id) = {}
            /\ \A ch \in changed : ch.id # id

\* Buttons 5 and 9, and an event for 7 that the Layout has been called with
C8_Witness ==
    /\ {layout[i].n : i \in 1..Len(layout)} = {5, 9}
    /\ \E id \in 1..Len(arrived) : arrived[id].n = 7 /\ Finished(id)

\* C9: an event for a bound Button whose kind is not the Button's trigger
\* kind invokes no action, changes no state and sends nothing; actions are
\* invoked only for events whose kind is the trigger kind of their Button.
C9_TriggerKindMustMatch ==
    /\ \A id \in 1..Len(arrived) :
          (Bound(arrived[id].n) /\ ~Triggers(arrived[id])) =>
              /\ Entries(id) = {}
              /\ \A ch \in changed : ch.id # id
    /\ \A id \in 1..Len(arrived) :
          Invocations(id) # {} => Triggers(arrived[id])

\* a release of Button 5 (trigger: press) was ignored, a press was dispatched
C9_Witness ==
    /\ Len(arrived) = 2
    /\ arrived[1] = [id |-> 1, n |-> 5, action |-> "release"]
    /\ arrived[2] = [id |-> 2, n |-> 5, action |-> "press"]
    /\ Finished(1) /\ Finished(2)
    /\ Entries(1) = {} /\ Invocations(2) # {}

ColourBoundTo(state) ==
    CASE state = "on"  -> "color_on"
      [] state = "off" -> "color_off"
      [] state = "err" -> "color_err"
      [] OTHER         -> "none"

LedWrite(n, colour) == [id |-> 0, k |-> "led", n |-> n, c |-> colour]

\* C16: Button.set_state(s), for s one of on, off and err, stores s as the
\* Button's state and writes the Button's LED once, with the colour bound to
\* s: color_on, color_off, color_err.
C16_SetStateWritesStateColour ==
    (/\ call.op = "set_state"
     /\ call.state \in {"on", "off", "err"}
     /\ led_on_valid(call.button.n)) =>
        /\ ret.raised = "none"
        /\ ret.obj.state = call.state
        /\ ret.wire = <<LedWrite(call.button.n, ColourBoundTo(call.state))>>

\* C17: Layout.reset on a Layout whose Buttons all have a state with a
\* colour and a valid LED writes the LED of every Button, in order, with the
\* colour bound to its state, after the all-LEDs-off command when the clear
\* is requested and without that command otherwise.
C17_ResetRewritesEveryButton ==
    (/\ call.op = "reset"
     /\ \A i \in 1..Len(call.layout) :
            /\ call.layout[i].state \in {"on", "off", "err"}
            /\ led_on_valid(call.layout[i].n)) =>
        /\ ret.raised = "none"
        /\ ret.wire =
              (IF call.other_led_off THEN <<led_all_off(0)>> ELSE <<>>)
              \o [i \in 1..Len(call.layout) |->
                    LedWrite(call.layout[i].n,
                             ColourBoundTo(call.layout[i].state))]

ProMk3 == {"LaunchpadPro", "LaunchpadMiniMk3"}

OneMessage == ret.raised = "none" /\ Len(ret.wire) = 1

\* C18 as stated: led_on of Pro and Mk3 raises LEDSelectionError and sends
\* nothing when n is given and outside 0..99, when x and y are given and
\* one of them is outside 0..9, or when neither n nor both of x and y are
\* given; in every other case it sends exactly one message.
C18_SelectionErrorCases ==
    (call.op = "led_on" /\ call.model \in ProMk3) =>
        IF \/ call.n # None /\ (call.n[1] < 0 \/ call.n[1] > 99)
           \/ /\ call.x # None /\ call.y # None
              /\ (call.x[1] < 0 \/ call.x[1] > 9 \/ call.y[1] < 0 \/ call.y[1] > 9)
           \/ call.n = None /\ (call.x = None \/ call.y = None)
          THEN ret = LEDSelectionError
          ELSE OneMessage

\* C18 as amended: n decides when it is given; x and y are looked at only
\* when n is not given. led_on of Pro and Mk3 raises LEDSelectionError and
\* sends nothing when n is given and outside 0..99, when n is not given and
\* x and y are given and one of them is outside 0..9, or when neither n nor
\* both of x and y are given; in every other case it sends one message.
C18_SelectionErrorCasesByPrecedence ==
    (call.op = "led_on" /\ call.model \in ProMk3) =>
        IF \/ call.n # None /\ (call.n[1] < 0 \/ call.n[1] > 99)
           \/ /\ call.n = None /\ call.x # None /\ call.y # None
              /\ (call.x[1] < 0 \/ call.x[1] > 9 \/ call.y[1] < 0 \/ call.y[1] > 9)
           \/ call.n = None /\ (call.x = None \/ call.y = None)
          THEN ret = LEDSelectionError
          ELSE OneMessage

\* a Pro is called with the valid number 5 and the coordinates (10, 0): one
\* message for LED 5 is sent
C18_Witness ==
    /\ call.op = "led_on" /\ call.model = "LaunchpadPro"
    /\ call.n = Some(5) /\ call.x = Some(10) /\ call.y = Some(0)
    /\ OneMessage
    /\ ret.wire[1].data[8] = 5

\* C19 as stated: led_on of the Classic raises LEDSelectionError and sends
\* nothing for every flat index n > 120 and every n < 0.
C19_ClassicRange ==
    (/\ call.op = "led_on" /\ call.model = "Launchpad"
     /\ call.n # None /\ (call.n[1] > 120 \/ call.n[1] < 0)) =>
        ret = LEDSelectionError

\* C19 as amended: led_on of the Classic raises LEDSelectionError and sends
\* nothing for every n < 0 and every n > 120 that is not one of 200..207;
\* for n in 200..207, the top row, it sends one control change (176) for
\* controller n - 96.
C19_ClassicRangeButTopRow ==
    (call.op = "led_on" /\ call.model = "Launchpad" /\ call.n # None) =>
        /\ ((call.n[1] > 120 \/ call.n[1] < 0) /\ call.n[1] \notin 200..207)
              => ret = LEDSelectionError
        /\ call.n[1] \in 200..207 =>
              /\ OneMessage
              /\ ret.wire[1].k = "send"
              /\ ret.wire[1].data[1] = 176
              /\ ret.wire[1].data[2] = call.n[1] - 96

\* the Classic is asked for LED 207 and sends a control change for 111
C19_Witness ==
    /\ call.op = "led_on" /\ call.model = "Launchpad"
    /\ call.n = Some(207)
    /\ OneMessage
    /\ ret.wire[1].data = <<176, 111, Launchpad_get_color(call.color)>>

(* ---------------------------------------------------------------------- *)
(* Properties of the construction of a Layout (LoadSpec)                   *)
(* ---------------------------------------------------------------------- *)

\* Layout.__init__ has returned: the Layout exists
Constructed == lpc = "start"

\* C15: an entry whose command cannot be resolved does not keep the Layout
\* from loading: Layout.__init__ never fails on the Callback of an entry,
\* and once it has read an entry the Layout has a Button for its number.
C15_UnresolvedActionStillLoads ==
    /\ [id |-> 0, kind |-> "TypeError"] \notin failures
    /\ \A i \in 1..Len(config) :
          (lpc # "load" \/ lcnt > i) => Bound(config[i].n)

\* what Layout.__init__ leaves behind when it returns is the Layout the
\* dispatch starts from
LoadedAsLayoutInit ==
    Constructed =>
        /\ Layout_loads(config)
        /\ layout = Layout_load(<<>>, config)
        /\ Layout_constructs(layout)
        /\ trace = Layout_reset(layout, 0)
        /\ callbacks = Layout_register(<<>>)

(* ---------------------------------------------------------------------- *)
(* Properties of the codec (CodecSpec)                                     *)
(* ---------------------------------------------------------------------- *)

\* C21: a decoded Message is reported as pressed (on) exactly when its
\* intensity is greater than 0, for every intensity in 0..127.
C21_PressedIffPositive ==
    call.op = "Message" =>
        (ret.obj.state = "on" <=> call.intensity > 0)

\* led_on sent its message and the decoder was given it
LedLoopedBack == call.op = "loopback" /\ ret.wire # <<>>

\* the decoder produced one Message, with address n
Decodes(n) == ret.raised = "none" /\ Len(ret.obj) = 1 /\ ret.obj[1].n = n

\* C22: for every valid flat address n of a class, the decoder, given the
\* message of led_on(color, n=n), yields a Message with the same address n
\* and an intensity of a button message.
C22_LoopbackRecoversAddress ==
    LedLoopedBack =>
        Decodes(call.n) /\ ret.obj[1].intensity \in Intensities

\* the mode-select messages of the Pro among the messages sent
ProModeSelects(wire) ==
    SelectSeq(wire, LAMBDA m : \E mode \in 0..1 : m = Pro_set_mode(mode))

\* C24: constructing (opening) a Pro sends the mode-select system-exclusive
\* message once, before any LED message can be sent.
C24_ProOpenSelectsMode ==
    (call.op = "open" /\ call.model = "LaunchpadPro") =>
        Len(ProModeSelects(ret.wire)) = 1

\* the colour bytes of the one message led_on sent: red, green (and blue)
ColourBytes ==
    LET data == ret.wire[1].data IN
    CASE call.model = "Launchpad"    -> <<data[3] % 16, data[3] \div 16>>
      [] call.model = "LaunchpadPro" -> SubSeq(data, 9, 11)
      [] OTHER                       -> SubSeq(data, 10, 12)

\* C25: for any integer channel values every colour byte led_on emits lies
\* in the native range of the class: 0..3 for the Classic, 0..63 for Pro and
\* Mk3.
C25_ColourBytesInNativeRange ==
    (call.op = "led_on" /\ OneMessage) =>
        \A i \in 1..Len(ColourBytes) :
            /\ 0 <= ColourBytes[i]
            /\ ColourBytes[i] <= IF call.model = "Launchpad" THEN 3 ELSE 63

\* h is six hexadecimal digits of either case, with or without a leading '#'
SixHexDigits(h) ==
    LET s == IF h # <<>> /\ h[1] = "#" THEN Tail(h) ELSE h IN
    /\ Len(s) = 6
    /\ \A i \in 1..6 :
          s[i] \in {"0", "1", "2", "3", "4", "5", "6", "7", "8", "9",
                    "a", "b", "c", "d", "e", "f",
                    "A", "B", "C", "D", "E", "F"}

\* C26: for every string h of six hexadecimal digits (either case, with or
\* without a leading '#') RGB.parse(RGB.parse(h).hex) returns the colour
\* RGB.parse(h) returns.
C26_ParseHexRoundTrip ==
    (call.op = "parse" /\ SixHexDigits(call.h)) =>
        /\ ret.raised = "none"
        /\ Len(ret.obj) = 2
        /\ ret.obj[2] = ret.obj[1]

C26_Witness ==
    /\ call.op = "parse"
    /\ call.h = <<"F", "c", "0", "9", "0", "0">>
    /\ ret.obj = <<RGB(252, 9, 0), RGB(252, 9, 0)>>

Abs(v) == IF v < 0 THEN -v ELSE v

\* C27 as stated: for every c in 0..255, scaling c to 0..63 and the result
\* to 0..255 gives a value within 5 of c.
C27_ScaleRoundTripWithin5 ==
    call.op = "scale" => Abs(ret.obj[2].r - call.c) <= 5

\* C27: for every c in 0..255, scaling c to 0..63 gives a value s in 0..63
\* from which the exact rescaling s * 255 / 63 recovers c within 4, and
\* scaling s to 0..255 returns s unchanged.
C27_ScaleTwiceKeepsScaled ==
    call.op = "scale" =>
        /\ ret.obj[2] = ret.obj[1]
        /\ \A s \in {ret.obj[1].r, ret.obj[1].g, ret.obj[1].b} :
              /\ s \in 0..63
              /\ Abs(Trunc_div(s * 255, 63) - call.c) <= 4

C27_Witness ==
    /\ call.op = "scale" /\ call.c = 255
    /\ ret.obj = <<RGB(63, 63, 63), RGB(63, 63, 63)>>

\* led_on was called with coordinates
XYCall == call.op = "led_on" /\ call.n = None /\ call.x # None /\ call.y # None

\* the LED number in the message led_on of a Pro or Mk3 sent
LedByte(model, out) ==
    out.wire[1].data[IF model = "LaunchpadPro" THEN 8 ELSE 9]

C29_Mk3XYMatchesDiagram ==
    (/\ XYCall /\ call.model = "LaunchpadMiniMk3"
     /\ call.x[1] \in 0..7 /\ call.y[1] \in 1..8) =>
        /\ OneMessage
        /\ LedByte(call.model, ret) = 10 * (9 - call.y[1]) + call.x[1] + 1

\* the LEDs the glyph of the second write_char lights
GlyphLit ==
    LET w == Write_char(call.model, call.char, call.offset) IN
    {w[i].n : i \in {k \in 1..Len(w) : w[k].lit}}

\* C30: after write_char with a new offset, every LED that is lit is one
\* the new glyph lights: no LED an earlier write_char lit stays lit.
C30_NoStalePixels ==
    (call.op = "write_char" /\ call.offset # call.at) =>
        ret.obj[2] \subseteq GlyphLit

(* ---------------------------------------------------------------------- *)
(* Properties of the Mk3's open and close (Mk3Spec)                        *)
(* ---------------------------------------------------------------------- *)

\* the messages on the wire, in order
WireMessages ==
    SelectSeq(trace, LAMBDA e : e.k \in {"set_mode", "set_layout", "alloff",
                                         "led", "glyph", "frame"})

IsLedMessage(e) == e.k \in {"alloff", "led", "glyph", "frame"}

\* C23: on the Mk3 the programmer mode and then the programmer layout are
\* selected before any LED message is sent, and once a close has released
\* the output the last message on the wire is the one that restores the
\* keys layout.
C23_ModeLayoutFirstRestoreLast ==
    LET w == WireMessages IN
    /\ \A k \in 1..Len(w) : IsLedMessage(w[k]) =>
          \E i \in 1..k, j \in 1..k :
              /\ i < j
              /\ w[i] = Wire_set_mode(Mk3_Mode_programmer_mode)
              /\ w[j] = Wire_set_layout(Mk3_Layout_programmer)
    /\ output = "none" => w[Len(w)] = Wire_set_layout(Mk3_Layout_keys)

(* ---------------------------------------------------------------------- *)
(* Properties of write_string and write_char (ScrollSpec)                  *)
(* ---------------------------------------------------------------------- *)

\* write_string returned; its steps, and the grid LEDs lit at the end
Scrolled == call.op = "write_string" /\ ret.raised = "none"
ScrollSteps == ret.obj[1]

\* the length of the string as the scroll pads it: one blank for left, two
\* for right
PaddedLength ==
    CASE call.scroll = "left"  -> Len(call.text) + 1
      [] call.scroll = "right" -> Len(call.text) + 2
      [] OTHER                 -> Len(call.text)

\* C31: for every text of length L (the empty one too) and every direction
\* write_string returns without an index error after (L+2)*8 steps for left,
\* (L+3)*8 - 7 steps for right and 4*L steps for none; every step makes at
\* most two write_char calls, each with an offset in -7..8 and a character
\* index inside the padded string.
C31_WriteStringTerminates ==
    call.op = "write_string" =>
        /\ ret.raised = "none"
        /\ Len(ScrollSteps) =
              CASE call.scroll = "left"  -> (Len(call.text) + 2) * 8
                [] call.scroll = "right" -> (Len(call.text) + 3) * 8 - 7
                [] OTHER                 -> 4 * Len(call.text)
        /\ \A k \in 1..Len(ScrollSteps) :
              /\ Len(ScrollSteps[k]) <= 2
              /\ \A c \in 1..Len(ScrollSteps[k]) :
                    /\ ScrollSteps[k][c].offset \in -7..8
                    /\ ScrollSteps[k][c].index \in 0..(PaddedLength - 1)

C31_Witness ==
    /\ Scrolled
    /\ call.text = <<"full">> /\ call.scroll = "left"
    /\ Len(ScrollSteps) = 24
    /\ ScrollSteps[9] = <<[index |-> 0, offset |-> 0], [index |-> 1, offset |-> 8]>>

\* the 8x8 grid: 16*r + c for the Classic, 10*(8 - r) + 1 + c for Pro and Mk3
GridLeds(model) ==
    {IF model = "Launchpad" THEN 16 * r + c ELSE 10 * (8 - r) + 1 + c :
        r \in 0..7, c \in 0..7}

\* the LED a message of write_char addresses
LedOf(model, m) ==
    CASE model = "Launchpad"    -> m.data[2]
      [] model = "LaunchpadPro" -> m.data[8]
      [] OTHER                  -> m.data[9]

\* C38: for every offset write_char writes only LEDs of the 8x8 grid, never
\* raises LEDSelectionError, and makes exactly 8 * max(0, 8 - |offset|) LED
\* writes, each LED at most once.
C38_WriteCharStaysOnGrid ==
    call.op = "write_char_once" =>
        /\ ret.raised = "none"
        /\ Len(ret.wire) = 8 * Max(0, 8 - Abs(call.offset))
        /\ \A x \in 1..Len(ret.wire) :
              LedOf(call.model, ret.wire[x]) \in GridLeds(call.model)
        /\ \A x \in 1..Len(ret.wire), z \in 1..Len(ret.wire) :
              x # z => LedOf(call.model, ret.wire[x])
                         # LedOf(call.model, ret.wire[z])

C38_Witness ==
    /\ call.op = "write_char_once"
    /\ call.model = "LaunchpadPro" /\ call.offset = -3 /\ call.char = "full"
    /\ Len(ret.wire) = 40
    /\ LedOf(call.model, ret.wire[1]) = 81

\* the number n of the k-th step of a scroll
StepNumber(k) ==
    IF call.scroll = "left" THEN k - 1
    ELSE (PaddedLength + 1) * 8 - 7 - (k - 1)

\* the LEDs the write_char calls of the k-th step write, in order
StepWrites(k) ==
    LET st == ScrollSteps[k]
        string == Padded(call.text, call.scroll) IN
    Write_char(call.model, Char_at(string, st[1].index), st[1].offset)
    \o Write_char(call.model, Char_at(string, st[2].index), st[2].offset)

\* C39: in every step n of a left or right scroll with 8 <= n <= 8 * the
\* length of the padded string, two write_char calls are made and together
\* they write each of the 64 grid LEDs exactly once.
C39_TwoCallsWriteGridOnce ==
    (Scrolled /\ call.scroll \in {"left", "right"}) =>
        \A k \in 1..Len(ScrollSteps) :
            (8 <= StepNumber(k) /\ StepNumber(k) <= 8 * PaddedLength) =>
                /\ Len(ScrollSteps[k]) = 2
                /\ LET w == StepWrites(k) IN
                   /\ Len(w) = 64
                   /\ {w[x].n : x \in 1..64} = GridLeds(call.model)

C39_Witness ==
    /\ Scrolled
    /\ call.text = <<"box">> /\ call.scroll = "right" /\ call.model = "Launchpad"
    /\ StepNumber(5) = 21
    /\ ScrollSteps[5] = <<[index |-> 2, offset |-> 3], [index |-> 1, offset |-> -5]>>

\* C40: when a left or right scroll of any text returns, the last write to
\* each of the 64 grid LEDs was a black one: a grid that was all lit before
\* is all dark.
C40_ScrollLeavesGridBlank ==
    (Scrolled /\ call.scroll \in {"left", "right"}) => ret.obj[2] = {}

C40_Witness ==
    /\ Scrolled
    /\ call.text = <<"full", "box">> /\ call.scroll = "left"
    /\ call.model = "LaunchpadPro"
    /\ ret.obj[2] = {}

(* ---------------------------------------------------------------------- *)
(* Properties of Button construction (CodecSpec)                           *)
(* ---------------------------------------------------------------------- *)

\* the entry of the call names a state function that can be imported
ResolverResolved ==
    call.state_func # None /\ get_callable(call.state_func[1]) # "None"

\* the initial state the entry of the call configures, off by default
ConfiguredInitial ==
    IF call.initial_state = None THEN "off" ELSE call.initial_state[1]

\* C32: a Button's initial state is off unless the entry supplies an initial
\* state or a state resolver; a configured resolver is invoked exactly once
\* at load time and its return value becomes the state; when the resolver
\* cannot be resolved, the configured initial state (default off) is used
\* and nothing is invoked.
C32_InitialStateAndResolver ==
    (call.op = "Button" /\ ret.raised = "none") =>
        IF ResolverResolved
          THEN ret.obj = <<call.result, 1>>
          ELSE ret.obj = <<ConfiguredInitial, 0>>

\* an entry with initial state on and a resolver that returns err: the
\* Button is in state err after one call of the resolver
C32_Witness ==
    /\ call.op = "Button" /\ ret.raised = "none"
    /\ call.initial_state = Some("on") /\ ResolverResolved
    /\ ret.obj = <<"err", 1>>

(* ---------------------------------------------------------------------- *)
(* Properties of the Button states (CallSpec)                              *)
(* ---------------------------------------------------------------------- *)

\* the states a Button can be in: on, off and error
SpecStates == {"on", "off", "err"}

\* the Buttons the call leaves behind: the one set_state was called on, the
\* Layout reset was called on (the reset a load ends with)
ButtonsAfter ==
    IF call.op = "set_state" THEN <<ret.obj>> ELSE ret.obj

\* the last write of LED n among the wire messages of the call
Shown(n) ==
    LET ks == {k \in 1..Len(ret.wire) :
                  ret.wire[k].k = "led" /\ ret.wire[k].n = n} IN
    IF ks = {} THEN "nothing"
    ELSE ret.wire[CHOOSE k \in ks : \A j \in ks : j <= k].c

\* C33: after a load (its reset) or a set_state call, every Button's state
\* is one of on, off and error, and the LED of every Button (with a valid
\* LED number) shows the colour bound to that state.
C33_StateIsShown ==
    (call.op \in {"set_state", "reset"}) =>
        \A i \in 1..Len(ButtonsAfter) :
            LET b == ButtonsAfter[i] IN
            led_on_valid(b.n) =>
                /\ b.state \in SpecStates
                /\ ret.raised = "none" => Shown(b.n) = ColourBoundTo(b.state)

(* ---------------------------------------------------------------------- *)
(* Properties of the input device under concurrent calls (RaceSpec)        *)
(* ---------------------------------------------------------------------- *)

\* how many times the worker has called subscriber sub with message id
TimesDelivered(id, sub) ==
    Cardinality({k \in 1..Len(delivered) :
                    delivered[k].id = id /\ delivered[k].sub = sub})

\* C34: subscriber B, registered before the first message and never
\* unregistered, has received a message exactly once when the worker ends
\* its walk through the subscribers for that message, also when A is
\* registered or unregistered by the application during the walk.
C34_StayingSubscriberGetsEach ==
    [][(wpc = "for" /\ wpc' = "while") => TimesDelivered(wmsg.id, "B") = 1]_vars

\* both puts of message id are done
Put(id) == id \in 1..Len(arrived) /\ tmsg.id # id

\* C35: when no flush is under way, a message that has arrived is not
\* readable and lost to the subscribers (on the polling queue, cleared from
\* the callback queue), nor lost to read() and kept for the subscribers (off
\* the polling queue, which only a flush empties here, and on the callback
\* queue).
C35_QueuesConsistentUnderFlush ==
    apc = "idle" =>
        \A id \in 1..Len(arrived) :
            Put(id) =>
                /\ ~(id \in Ids(message_queue) /\ id \in flushed)
                /\ ~(id \notin Ids(message_queue) /\ id \in Ids(callback_queue))

(* ---------------------------------------------------------------------- *)
(* Properties of open and close (OpenSpec)                                 *)
(* ---------------------------------------------------------------------- *)

\* C36: when open() has failed with DeviceNotFound, no transport handle is
\* open and no worker thread is running (none was started, or the one that
\* was started has ended).
C36_FailedOpenLeavesClosed ==
    apc = "failed" =>
        /\ midi = "none"
        /\ output = "none"
        /\ wpc \in {"unstarted", "done"}

\* the layout-restore messages the launchpad has been sent
Restores ==
    {k \in 1..Len(trace) : trace[k] = Wire_set_layout(Mk3_Layout_keys)}

\* C37: a close() after a close() that has returned sends no wire message
\* (the Mk3 has been sent its one layout-restore message by the first
\* close), raises nothing and leaves input and output unset.
C37_CloseIsIdempotent ==
    apc = "closed_again" =>
        /\ ret.raised = "none"
        /\ ret.wire = <<>>
        /\ midi = "none" /\ output = "none"
        /\ Cardinality(Restores) =
              (IF call.model = "LaunchpadMiniMk3" THEN 1 ELSE 0)

\* a LaunchpadMiniMk3 was opened and has been closed a third time
C37_Witness ==
    /\ apc = "closed_again" /\ call.model = "LaunchpadMiniMk3"
    /\ call.closes = 3
    /\ Cardinality(Restores) = 1

====
